---- MODULE Spec2Model ----
(***************************************************************************)
(* The schema document model of profit/widgets/tickerdesigner.py: the      *)
(* typed item tree (CallableItem, TickerItem, FieldItem, IndexItem) held   *)
(* in a QStandardItemModel, the single clip reference, the edited item and *)
(* the enabled state of the edit actions, driven by the window's signal    *)
(* handlers.                                                               *)
(*                                                                         *)
(* Items live in a heap (the sequence items); an item's identity is its    *)
(* index in the heap, index 0 is None.  Parameter dictionaries live in a   *)
(* second heap (dicts) so that sharing one dictionary between two items is *)
(* expressible.  Identities are never reused.                              *)
(***************************************************************************)
EXTENDS Integers, Sequences, FiniteSets, TLC

VARIABLES
    items,          \* heap of SchemaItem objects
    dicts,          \* heap of IndexItem.parameters dictionaries
    rootRows,       \* rows of model.invisibleRootItem()
    editItem,       \* TickerDesigner.editItem
    clipItem,       \* TickerDesigner.clipItem
    enabled,        \* isEnabled() of the edit / design QActions
    controlStack,   \* controlStack.currentIndex()
    indexName,      \* the indexName line edit: its text and its oldText
    savedSchema,    \* TickerDesigner.savedSchema
    windowModified, \* isWindowModified()
    lastCmd         \* the handler that ran last (observation only)

vars == <<items, dicts, rootRows, editItem, clipItem, enabled, controlStack,
          indexName, savedSchema, windowModified, lastCmd>>

None == 0

\* ---------------------------------------------------------------- bounds
MaxItems == 4        \* items ever created in a run of Spec
MaxRoots == 3        \* top-level items at a time
MaxClipItems == 6    \* items ever created in a run of SpecClip
MaxCloneItems == 9   \* items ever created in a run of SpecClone
CloneDocSize == 5    \* items of a document SpecClone starts from
MaxCopied == 2       \* items ever copied in a run of SpecClone
MaxClipCopied == 1   \* items ever copied in a run of SpecClip
ClipDocSize == 4     \* items of a document SpecClip starts from
MaxLoadItems == 8    \* items ever made in a run of SpecLoad
MaxOpened == 1       \* items ever made before a file is opened in SpecLoad
MaxNamesItems == 7   \* items of a document SpecNames starts from
MaxCallableItems == 3  \* items a SpecCallable document grows to
MaxResetItems == 4   \* items ever made in a run of SpecReset
MaxModifiedItems == 5  \* items ever made in a run of SpecModified

\* ------------------------------------------------------------- constants
defaultText == "Unknown"

\* tickerFieldTypes(): field id -> field name (two entries of TickType)
fieldTypes == (1 :> "bidPrice") @@ (2 :> "askPrice")

\* seriesIndexTypes(): index class name -> the params of the class, each
\* with its editor type and the value a fresh editor shows
indexTypes ==
    [SMA |-> <<[name |-> "series",  type |-> "line", default |-> ""],
               [name |-> "periods", type |-> "int",  default |-> 1]>>,
     EMA |-> <<[name |-> "series",  type |-> "line", default |-> ""],
               [name |-> "periods", type |-> "int",  default |-> 1]>>]

itemTypePages ==
    [TickerItem |-> 1, FieldItem |-> 2, IndexItem |-> 3, CallableItem |-> 4]

\* ----------------------------------------------------------- SchemaItem
\* SchemaItem.__init__ and the constructors of the four item classes.
\* Attributes a class does not have carry an inert default.
SchemaItem(kind, text) ==
    [kind |-> kind, text |-> text,
     cutSource |-> FALSE, copySource |-> FALSE,
     id |-> -1, typeName |-> "", parameters |-> None,
     tickerId |-> 0, exchange |-> "", strike |-> 0,
     execType |-> "", srcType |-> "", messageTypes |-> <<>>,
     parent |-> None, rows |-> <<>>,
     model |-> FALSE,       \* QStandardItem.model() is the window's model
     deleted |-> FALSE]     \* the underlying C++ object has been deleted

FieldItem(name) == SchemaItem("FieldItem", name)

IndexItem(typeName, dict) ==
    [SchemaItem("IndexItem", typeName) EXCEPT
        !.typeName = typeName, !.parameters = dict]

\* CallableItem.fromSchema(dict(name=name))
CallableItem_fromSchema(name) == SchemaItem("CallableItem", name)

\* TickerItem.fromSchema(dict(tickerId=tickerId, symbol=symbol))
TickerItem_fromSchema(tickerId, symbol) ==
    [SchemaItem("TickerItem", symbol) EXCEPT !.tickerId = tickerId]

\* a faulty canCopy: every item may be copied
canCopy_any(item) == TRUE

canCopy(item) == item.kind \in {"FieldItem", "IndexItem"}

canCut(item) == item.kind \in {"FieldItem", "IndexItem"}

canDelete(item) == TRUE

\* a faulty canInsert: every item but a callable takes any type
canInsert_any(item, t) == item.kind # "CallableItem"

\* item.canInsert(t) for one type t
canInsert(item, t) ==
    CASE item.kind = "CallableItem" -> FALSE
      [] item.kind = "TickerItem"   -> t = "FieldItem"
      [] item.kind = "FieldItem"    -> t = "IndexItem"
      [] item.kind = "IndexItem"    -> t = "IndexItem"

\* item.canPaste(clip); clipKind is "None" when clip is None
canPaste(item, clipKind) ==
    CASE item.kind = "CallableItem" -> FALSE
      [] item.kind = "TickerItem"   -> clipKind = "FieldItem"
      [] item.kind = "FieldItem"    -> clipKind = "IndexItem"
      [] item.kind = "IndexItem"    -> clipKind = "IndexItem"

KindOf(its, n) == IF n = None THEN "None" ELSE its[n].kind

\* ------------------------------------------------ QStandardItem plumbing
\* rows of the parent of n (the invisible root for a top-level item)
RowsOfParent(its, root, n) ==
    IF its[n].parent = None THEN root ELSE its[its[n].parent].rows

\* model.indexFromItem(n).row(), 1-based
RowOf(its, root, n) ==
    LET rows == RowsOfParent(its, root, n)
    IN  CHOOSE r \in 1..Len(rows) : rows[r] = n

RemoveAt(s, r) == [k \in 1..(Len(s) - 1) |-> IF k < r THEN s[k] ELSE s[k + 1]]

\* the items of the subtree rooted at n (n included); only used on
\* subtrees that are trees
RECURSIVE SubtreeOf(_, _)
SubtreeOf(its, n) ==
    {n} \cup UNION {SubtreeOf(its, its[n].rows[r]) :
                        r \in {q \in 1..Len(its[n].rows) : its[n].rows[q] # None}}

\* the items of the document: those reachable from the invisible root
TreeOf(its, rootR) == UNION {SubtreeOf(its, rootR[r]) : r \in 1..Len(rootR)}

\* QStandardItemPrivate::setModel over the subtree of n
SetModel(its, n, m) ==
    LET sub == SubtreeOf(its, n)
    IN  [k \in 1..Len(its) |-> IF k \in sub THEN [its[k] EXCEPT !.model = m] ELSE its[k]]

\* a faulty appendRow: the item is inserted before the first child
AppendRow_front(its, p, c) ==
    IF c = p THEN its
    ELSE [its EXCEPT ![p].rows = <<c>> \o @, ![c].parent = p, ![c].model = its[p].model]

\* parent.appendRow(c) / parent.setChild(parent.rowCount(), c) for an item c
\* that has no parent; refused when c is the parent itself
AppendRow(its, p, c) ==
    IF c = p THEN its
    ELSE LET its1 == IF its[p].model THEN SetModel(its, c, TRUE) ELSE its
         IN  [its1 EXCEPT ![p].rows = Append(@, c), ![c].parent = p]

\* parent.takeChild(row): the slot stays, holding no item
TakeChild(its, p, row) ==
    LET c == its[p].rows[row]
        its1 == SetModel(its, c, FALSE)
    IN  [its1 EXCEPT ![p].rows[row] = None, ![c].parent = None]

\* SchemaItem.children: every descendant, parents before children
RECURSIVE children(_, _)
RECURSIVE childrenFrom(_, _, _)
children(its, n) == childrenFrom(its, its[n].rows, 1)
childrenFrom(its, rows, r) ==
    IF r > Len(rows) THEN <<>>
    ELSE <<rows[r]>> \o children(its, rows[r]) \o childrenFrom(its, rows, r + 1)

\* a faulty siblings: the item has none
siblings_none(its, n) == {}

\* SchemaItem.siblings
siblings(its, n) ==
    LET rows == its[its[n].parent].rows
    IN  {rows[r] : r \in 1..Len(rows)} \ {n}

\* SchemaItem.root; on a cycle of parents the loop never ends
RECURSIVE rootWithin(_, _, _)
rootWithin(its, n, fuel) ==
    IF its[n].parent = None THEN n
    ELSE IF fuel = 0 THEN None
    ELSE rootWithin(its, its[n].parent, fuel - 1)

root(its, n) == rootWithin(its, n, Len(its))

\* ------------------------------------------------------- enableActions
AllDisabled ==
    [up |-> FALSE, down |-> FALSE, cut |-> FALSE, delete |-> FALSE,
     copy |-> FALSE, paste |-> FALSE, insertindex |-> FALSE, insertfield |-> FALSE]

\* a faulty enableActions: paste is enabled by any clip item, whatever the
\* clicked item accepts
enableActions_anyClip(its, rootR, clip, n) ==
    IF n = None THEN AllDisabled
    ELSE LET row  == RowOf(its, rootR, n)
             item == its[n]
         IN  [up     |-> row - 1 >= 1,
              down   |-> row + 1 <= Len(RowsOfParent(its, rootR, n)),
              delete |-> canDelete(item),
              cut    |-> canCut(item),
              copy   |-> canCopy(item),
              paste  |-> clip # None /\ ~(its[clip].cutSource /\ clip = n),
              insertindex |-> canInsert(item, "IndexItem"),
              insertfield |-> canInsert(item, "FieldItem")]

\* a faulty enableActions: move up is enabled on the first row too
enableActions_upFirst(its, rootR, clip, n) ==
    IF n = None THEN AllDisabled
    ELSE LET row  == RowOf(its, rootR, n)
             item == its[n]
         IN  [up     |-> row >= 1,
              down   |-> row + 1 <= Len(RowsOfParent(its, rootR, n)),
              delete |-> canDelete(item),
              cut    |-> canCut(item),
              copy   |-> canCopy(item),
              paste  |-> /\ canPaste(item, KindOf(its, clip))
                         /\ ~(clip # None /\ its[clip].cutSource /\ clip = n),
              insertindex |-> canInsert(item, "IndexItem"),
              insertfield |-> canInsert(item, "FieldItem")]

\* enableActions(index) for the index of item n; n = None is an invalid index
enableActions(its, rootR, clip, n) ==
    IF n = None THEN AllDisabled
    ELSE LET row  == RowOf(its, rootR, n)
             item == its[n]
         IN  [up     |-> row - 1 >= 1,
              down   |-> row + 1 <= Len(RowsOfParent(its, rootR, n)),
              delete |-> canDelete(item),
              cut    |-> canCut(item),
              copy   |-> canCopy(item),
              paste  |-> /\ canPaste(item, KindOf(its, clip))
                         /\ ~(clip # None /\ its[clip].cutSource /\ clip = n),
              insertindex |-> canInsert(item, "IndexItem"),
              insertfield |-> canInsert(item, "FieldItem")]

\* model.indexFromItem(n): valid only for an item of this model
indexFromItem(its, n) == IF its[n].model THEN n ELSE None

\* the observation of one handler run: the handler, the item it created or
\* pasted, whether it ran to its end (ok = FALSE: it raised or returned
\* early, leaving the document as it was) and the number of times it
\* emitted Signals.modified
Cmd(op, new, ok, emits) == [op |-> op, new |-> new, ok |-> ok, emits |-> emits]

\* ------------------------------------------------------------------ Init
\* ------------------------------------------------------- checkModified
\* Python values of the three types checkModified meets
NoneValue == [type |-> "NoneType"]

ListValue(l) == [type |-> "list", value |-> l]

MethodValue(name) == [type |-> "instancemethod", name |-> name]

\* a != b: values of different types are unequal
NotEqual(a, b) ==
    \/ a.type # b.type
    \/ a.type = "list" /\ a.value # b.value
    \/ a.type = "instancemethod" /\ a.name # b.name

\* checkModified: setWindowModified(self.savedSchema != self.schema), where
\* self.schema is the bound method, which is not called
checkModified(saved) == NotEqual(saved, MethodValue("schema"))

\* Signals.modified is connected to checkModified: every emission of the
\* handler that runs (lastCmd'.emits of them) sets the window-modified flag
emitModified ==
    /\ windowModified' = IF lastCmd'.emits > 0 THEN checkModified(savedSchema)
                         ELSE windowModified
    /\ UNCHANGED savedSchema

\* TickerDesigner.__init__ / resetSchema: empty model, nothing edited,
\* nothing clipped, every edit action disabled
Init ==
    /\ items = <<>>
    /\ dicts = <<>>
    /\ rootRows = <<>>
    /\ editItem = None
    /\ clipItem = None
    /\ enabled = AllDisabled
    /\ controlStack = 0
    /\ indexName = [text |-> "", oldText |-> ""]
    /\ savedSchema = NoneValue
    /\ windowModified = FALSE
    /\ lastCmd = Cmd("init", None, TRUE, 0)

\* --------------------------------------------------------------- inserts
on_actionInsertCallable_triggered(capacity) ==
    /\ Len(items) < capacity
    /\ Len(rootRows) < MaxRoots
    /\ LET n == Len(items) + 1
       IN  /\ items' = Append(items, [CallableItem_fromSchema(defaultText) EXCEPT !.model = TRUE])
           /\ rootRows' = Append(rootRows, n)
           /\ lastCmd' = Cmd("insertCallable", n, TRUE, 1)
    /\ UNCHANGED <<dicts, editItem, clipItem, enabled, controlStack, indexName>>
    /\ emitModified

Max(S) == CHOOSE x \in S : \A y \in S : y <= x

on_actionInsertTicker_triggered(capacity) ==
    /\ Len(items) < capacity
    /\ Len(rootRows) < MaxRoots
    /\ LET n == Len(items) + 1
           tickerId == IF rootRows = <<>> THEN 1
                       ELSE 1 + Max({items[rootRows[r]].tickerId : r \in 1..Len(rootRows)})
       IN  /\ items' = Append(items, [TickerItem_fromSchema(tickerId, defaultText) EXCEPT !.model = TRUE])
           /\ rootRows' = Append(rootRows, n)
           /\ lastCmd' = Cmd("insertTicker", n, TRUE, 1)
    /\ UNCHANGED <<dicts, editItem, clipItem, enabled, controlStack, indexName>>
    /\ emitModified

\* addFieldItem
on_actionInsertField_triggered(capacity) ==
    /\ enabled.insertfield
    /\ Len(items) < capacity
    /\ LET n == Len(items) + 1
       IN  /\ items' = AppendRow(Append(items, FieldItem(defaultText)), editItem, n)
           /\ lastCmd' = Cmd("insertField", n, TRUE, 1)
    /\ UNCHANGED <<dicts, rootRows, editItem, clipItem, enabled, controlStack, indexName>>
    /\ emitModified

\* addIndexItem
on_actionInsertIndex_triggered(capacity) ==
    /\ enabled.insertindex
    /\ Len(items) < capacity
    /\ LET n == Len(items) + 1
           d == Len(dicts) + 1
       IN  /\ items' = AppendRow(Append(items, IndexItem(defaultText, d)), editItem, n)
           /\ dicts' = Append(dicts, <<>>)
           /\ lastCmd' = Cmd("insertIndex", n, TRUE, 1)
    /\ UNCHANGED <<rootRows, editItem, clipItem, enabled, controlStack, indexName>>
    /\ emitModified

\* ----------------------------------------------------------------- click
Attached(its) == {n \in 1..Len(its) : its[n].model /\ ~its[n].deleted}

\* a parameter value is [t |-> "int", v |-> i] or [t |-> "str", v |-> s];
\* an integer never equals a string
StrVal(s) == [t |-> "str", v |-> s]

IntVal(i) == [t |-> "int", v |-> i]

ValueEq(value, str) == value.t = "str" /\ value.v = str

\* d[key] = value on a Python dict
SetKey(d, key, value) == (key :> value) @@ d

\* buildIndexParamWidgets: every editor builder (buildSpinEditor,
\* lineEditor) stores the editor's value under a parameter name the item
\* does not have yet; unknownEditor stores nothing
RECURSIVE buildIndexParamWidgets(_, _, _)
buildIndexParamWidgets(params, r, d) ==
    IF r > Len(params) THEN d
    ELSE LET prm == params[r]
             d1  == IF prm.name \in DOMAIN d THEN d
                    ELSE IF prm.type = "int" THEN SetKey(d, prm.name, IntVal(prm.default))
                    ELSE IF prm.type = "line" THEN SetKey(d, prm.name, StrVal(""))
                    ELSE d
         IN  buildIndexParamWidgets(params, r + 1, d1)

\* setupIndexItem's effect on the dictionaries
setupIndexItem(its, ds, n) ==
    IF its[n].typeName \in DOMAIN indexTypes
    THEN [ds EXCEPT ![its[n].parameters] =
              buildIndexParamWidgets(indexTypes[its[n].typeName], 1, @)]
    ELSE ds

on_treeView_clicked(n) ==
    /\ n \in Attached(items)
    /\ enabled' = enableActions(items, rootRows, clipItem, n)
    /\ controlStack' = itemTypePages[items[n].kind]
    /\ editItem' = n
    /\ IF items[n].kind = "IndexItem"
       THEN \* indexName.setText(item.text()) runs on_indexName_textChanged
            \* while editItem is None
            /\ indexName' = IF indexName.text # items[n].text
                            THEN [text |-> items[n].text, oldText |-> items[n].text]
                            ELSE indexName
            /\ dicts' = setupIndexItem(items, dicts, n)
       ELSE UNCHANGED <<indexName, dicts>>
    /\ lastCmd' = Cmd("clicked", None, TRUE, 0)
    /\ UNCHANGED <<items, rootRows, clipItem>>
    /\ emitModified

\* ------------------------------------------------------------ cut / copy
\* SchemaItem.setCopy
setCopy(item) == [item EXCEPT !.copySource = TRUE, !.cutSource = FALSE]

\* SchemaItem.setCut
setCut(item) == [item EXCEPT !.cutSource = TRUE, !.copySource = FALSE]

\* SchemaItem.resetForeground: repaints the item, nothing else; a call on
\* an item whose C++ object was deleted raises RuntimeError
resetForeground(item) == item

Raises_resetForeground(its, n) == n # None /\ its[n].deleted

on_actionCopy_triggered ==
    /\ enabled.copy
    /\ IF Raises_resetForeground(items, clipItem)
       THEN /\ lastCmd' = Cmd("copy", None, FALSE, 0)
            /\ UNCHANGED <<items, clipItem>>
       ELSE /\ clipItem' = editItem
            /\ items' = LET its1 == IF clipItem # None
                                    THEN [items EXCEPT ![clipItem] = resetForeground(@)]
                                    ELSE items
                        IN  [its1 EXCEPT ![editItem] = setCopy(@)]
            /\ lastCmd' = Cmd("copy", None, TRUE, 0)
    /\ UNCHANGED <<dicts, rootRows, editItem, enabled, controlStack, indexName>>
    /\ emitModified

on_actionCut_triggered ==
    /\ enabled.cut
    /\ IF Raises_resetForeground(items, clipItem)
       THEN /\ lastCmd' = Cmd("cut", None, FALSE, 0)
            /\ UNCHANGED <<items, clipItem>>
       ELSE /\ clipItem' = editItem
            /\ items' = LET its1 == IF clipItem # None
                                    THEN [items EXCEPT ![clipItem] = resetForeground(@)]
                                    ELSE items
                        IN  [its1 EXCEPT ![editItem] = setCut(@)]
            /\ lastCmd' = Cmd("cut", None, TRUE, 0)
    /\ UNCHANGED <<dicts, rootRows, editItem, enabled, controlStack, indexName>>
    /\ emitModified

\* ---------------------------------------------------------------- delete
\* what is left of an item once its C++ object is deleted: the Python
\* wrapper with its class and its cutSource / copySource attributes, on
\* which every Qt call raises RuntimeError.  The wrapper lives on only while
\* the window refers to it (clip); otherwise it is collected, and its place
\* in the heap holds an object without class
Deleted(item, clip) ==
    IF clip
    THEN [SchemaItem(item.kind, "") EXCEPT
            !.deleted = TRUE, !.cutSource = item.cutSource,
            !.copySource = item.copySource]
    ELSE [SchemaItem("None", "") EXCEPT !.deleted = TRUE]

\* model.removeRow(row, parent) of item n: the row goes and the C++ objects
\* of n and of all its descendants are deleted
removeRow(its, n, clip) ==
    LET sub == SubtreeOf(its, n)
        p   == its[n].parent
        its1 == [k \in 1..Len(its) |-> IF k \in sub THEN Deleted(its[k], k = clip) ELSE its[k]]
    IN  IF p = None THEN its1
        ELSE [its1 EXCEPT ![p].rows = RemoveAt(@, RowOf(its, <<>>, n))]

on_actionDelete_triggered ==
    /\ enabled.delete
    /\ editItem # None
    /\ editItem' = None
    /\ items' = removeRow(items, editItem, clipItem)
    /\ rootRows' = IF items[editItem].parent = None
                   THEN RemoveAt(rootRows, RowOf(items, rootRows, editItem))
                   ELSE rootRows
    /\ enabled' = enableActions(items', rootRows', clipItem, None)
    /\ controlStack' = 0
    /\ lastCmd' = Cmd("delete", None, TRUE, 1)
    /\ UNCHANGED <<dicts, clipItem, indexName>>
    /\ emitModified

\* ------------------------------------------------------------------ move
\* a faulty exchange: the item moved takes the place of the other, which
\* is lost
Swap_over(s, i, j) == [s EXCEPT ![j] = s[i]]

Swap(s, i, j) == [s EXCEPT ![i] = s[j], ![j] = s[i]]

moveItem(item, offset) ==
    LET row == RowOf(items, rootRows, item)
        parent == items[item].parent
    IN  /\ items' = IF parent = None THEN items
                    ELSE [items EXCEPT ![parent].rows = Swap(@, row, row + offset)]
        /\ rootRows' = IF parent = None THEN Swap(rootRows, row, row + offset)
                       ELSE rootRows
        /\ enabled' = enableActions(items', rootRows', clipItem, indexFromItem(items', item))
        /\ UNCHANGED <<dicts, editItem, clipItem, controlStack, indexName>>

on_actionMoveDown_triggered ==
    /\ enabled.down
    /\ editItem # None
    /\ moveItem(editItem, 1)
    /\ lastCmd' = Cmd("moveDown", None, TRUE, 1)
    /\ emitModified

on_actionMoveUp_triggered ==
    /\ enabled.up
    /\ editItem # None
    /\ moveItem(editItem, -1)
    /\ lastCmd' = Cmd("moveUp", None, TRUE, 1)
    /\ emitModified

\* ----------------------------------------------------------------- clone
\* FieldItem.clone, IndexItem.clone and IndexItem.deepClone on the heap
\* H = [items, dicts]; each returns the heap after the call, clone also the
\* identity of the new item.  child.clone() dispatches on the child's class.
RECURSIVE clone(_, _)
RECURSIVE FieldItem_cloneRows(_, _, _, _)
RECURSIVE deepClone(_, _, _, _)

\* a faulty FieldItem.clone: the clone is a copy of the whole object, its
\* cutSource and copySource attributes included
FieldItem_clone_marked(H, n) ==
    LET c  == Len(H.items) + 1
        H1 == [H EXCEPT !.items =
                  Append(@, [H.items[n] EXCEPT !.parent = None, !.rows = <<>>,
                                               !.model = FALSE])]
    IN  [H |-> FieldItem_cloneRows(H1, n, c, 1), id |-> c]

FieldItem_clone(H, n) ==
    LET c  == Len(H.items) + 1
        H1 == [H EXCEPT !.items =
                  Append(@, [FieldItem(H.items[n].text) EXCEPT !.id = H.items[n].id])]
    IN  [H |-> FieldItem_cloneRows(H1, n, c, 1), id |-> c]

\* for child in self.immediateChildren: clone.appendRow(child.clone())
FieldItem_cloneRows(H, source, target, r) ==
    IF r > Len(H.items[source].rows) THEN H
    ELSE LET made == clone(H, H.items[source].rows[r])
             H2   == [made.H EXCEPT !.items = AppendRow(@, target, made.id)]
         IN  FieldItem_cloneRows(H2, source, target, r + 1)

\* a faulty IndexItem.clone: clone.parameters = self.parameters, no copy
IndexItem_clone_shared(H, n) ==
    LET c  == Len(H.items) + 1
        H1 == [H EXCEPT !.items =
                  Append(@, [IndexItem(H.items[n].text, H.items[n].parameters) EXCEPT
                                !.typeName = H.items[n].typeName])]
    IN  [H |-> deepClone(H1, n, c, 1), id |-> c]

IndexItem_clone(H, n) ==
    LET c  == Len(H.items) + 1
        d  == Len(H.dicts) + 1
        H1 == [items |-> Append(H.items,
                            [IndexItem(H.items[n].text, d) EXCEPT
                                !.typeName = H.items[n].typeName]),
               dicts |-> Append(H.dicts, H.dicts[H.items[n].parameters])]
    IN  [H |-> deepClone(H1, n, c, 1), id |-> c]

\* for child in source.immediateChildren:
\*     clone = child.clone(); target.appendRow(clone); self.deepClone(child, clone)
deepClone(H, source, target, r) ==
    IF r > Len(H.items[source].rows) THEN H
    ELSE LET child == H.items[source].rows[r]
             made  == clone(H, child)
             H2    == [made.H EXCEPT !.items = AppendRow(@, target, made.id)]
             H3    == deepClone(H2, child, made.id, 1)
         IN  deepClone(H3, source, target, r + 1)

clone(H, n) ==
    IF H.items[n].kind = "FieldItem" THEN FieldItem_clone(H, n)
    ELSE IndexItem_clone(H, n)

\* ----------------------------------------------------------------- paste
\* on_actionPaste_triggered; capacity bounds the heap when a clone is made
on_actionPaste_triggered(capacity) ==
    /\ enabled.paste
    /\ LET sourceitem == clipItem
           targetitem == editItem
       IN  IF items[sourceitem].deleted
           THEN \* model.indexFromItem(sourceitem) raises RuntimeError
                /\ lastCmd' = Cmd("paste", None, FALSE, 0)
                /\ UNCHANGED <<items, dicts, rootRows, editItem, clipItem, enabled, controlStack, indexName>>
           ELSE IF items[sourceitem].cutSource
           THEN LET sourcerow    == RowOf(items, rootRows, sourceitem)
                    sourceparent == items[sourceitem].parent
                    taken  == TakeChild(items, sourceparent, sourcerow)
                    set    == AppendRow(taken, targetitem, sourceitem)
                    reset  == [set EXCEPT ![sourceitem] = resetForeground(@)]
                    \* model.removeRow(sourcerow, sourceparent.index())
                    removed == [reset EXCEPT ![sourceparent].rows = RemoveAt(@, sourcerow)]
                IN  /\ items' = removed
                    /\ clipItem' = None
                    /\ enabled' = enableActions(removed, rootRows, None,
                                                indexFromItem(removed, targetitem))
                    /\ lastCmd' = Cmd("paste", sourceitem, TRUE, 1)
                    /\ UNCHANGED <<dicts, rootRows, editItem, controlStack, indexName>>
           ELSE LET made == clone([items |-> items, dicts |-> dicts], sourceitem)
                    set  == AppendRow(made.H.items, targetitem, made.id)
                IN  /\ Len(made.H.items) <= capacity
                    /\ items' = set
                    /\ dicts' = made.H.dicts
                    /\ enabled' = enableActions(set, rootRows, clipItem,
                                                indexFromItem(set, targetitem))
                    /\ lastCmd' = Cmd("paste", made.id, TRUE, 1)
                    /\ UNCHANGED <<rootRows, editItem, clipItem, controlStack, indexName>>
    /\ emitModified

\* ----------------------------------------------------------- updateLines
\* the loop of updateLines over the list of items kids from position r on;
\* acc = [dicts, modified]
RECURSIVE updateLinesFrom(_, _, _, _, _, _)
updateLinesFrom(its, kids, r, previous, current, acc) ==
    IF r > Len(kids) THEN acc
    ELSE LET d    == its[kids[r]].parameters
             old  == acc.dicts[d]
             hits == {key \in DOMAIN old : ValueEq(old[key], previous)}
             new  == [key \in DOMAIN old |->
                         IF key \in hits THEN StrVal(current) ELSE old[key]]
         IN  updateLinesFrom(its, kids, r + 1, previous, current,
                 [dicts |-> [acc.dicts EXCEPT ![d] = new],
                  modified |-> acc.modified + Cardinality(hits)])

\* a faulty updateLines: only the rows of the root item are visited
updateLines_shallow(its, ds, item, previous, current) ==
    IF item = None THEN [dicts |-> ds, modified |-> 0]
    ELSE LET all  == its[root(its, item)].rows
             kids == SelectSeq(all, LAMBDA c : c # item /\ its[c].kind = "IndexItem")
         IN  updateLinesFrom(its, kids, 1, previous, current,
                             [dicts |-> ds, modified |-> 0])

\* a faulty updateLines: every index item of the model is visited, the
\* renamed one and those of the other root items included
updateLines_unscoped(its, ds, item, previous, current) ==
    IF item = None THEN [dicts |-> ds, modified |-> 0]
    ELSE LET all  == [n \in 1..Len(its) |-> n]
             kids == SelectSeq(all, LAMBDA c : /\ its[c].kind = "IndexItem"
                                               /\ its[c].model /\ ~its[c].deleted)
         IN  updateLinesFrom(its, kids, 1, previous, current,
                             [dicts |-> ds, modified |-> 0])

\* updateLines(item, previous, current) -> [dicts, modified]
updateLines(its, ds, item, previous, current) ==
    IF item = None THEN [dicts |-> ds, modified |-> 0]
    ELSE LET all  == children(its, root(its, item))
             kids == SelectSeq(all, LAMBDA c : c # item /\ its[c].kind = "IndexItem")
         IN  updateLinesFrom(its, kids, 1, previous, current,
                             [dicts |-> ds, modified |-> 0])

\* ------------------------------------------------------------ fieldCombo
\* on_fieldCombo_currentIndexChanged for the combo entry holding field id
\* fid; fid = None is the '<none>' entry, whose data is invalid
on_fieldCombo_currentIndexChanged(fid) ==
    /\ controlStack = itemTypePages.FieldItem
    /\ editItem # None
    /\ LET item == editItem
       IN  IF fid = None
           THEN /\ lastCmd' = Cmd("fieldCombo", None, TRUE, 1)
                /\ UNCHANGED <<items, dicts>>
           ELSE IF items[item].parent = None
           THEN \* item.siblings raises AttributeError
                /\ lastCmd' = Cmd("fieldCombo", None, FALSE, 0)
                /\ UNCHANGED <<items, dicts>>
           ELSE IF \E other \in siblings(items, item) : items[other].kind # "FieldItem"
           THEN \* other.id raises AttributeError: only a field has an id
                /\ lastCmd' = Cmd("fieldCombo", None, FALSE, 0)
                /\ UNCHANGED <<items, dicts>>
           ELSE IF fid \in {items[other].id : other \in siblings(items, item)}
           THEN \* rejected; fieldCombo.setCurrentIndex(0) re-enters with '<none>'
                /\ lastCmd' = Cmd("fieldCombo", None, FALSE, 1)
                /\ UNCHANGED <<items, dicts>>
           ELSE LET old == items[item].text
                    new == fieldTypes[fid]
                IN  /\ items' = [items EXCEPT ![item].text = new, ![item].id = fid]
                    /\ dicts' = updateLines(items', dicts, item, old, new).dicts
                    /\ lastCmd' = Cmd("fieldCombo", None, TRUE, 1)
    /\ UNCHANGED <<rootRows, editItem, clipItem, enabled, controlStack, indexName>>
    /\ emitModified

\* ------------------------------------------------------------- indexName
\* on_indexName_textChanged(text), the user typing in the name line edit of
\* the index page
on_indexName_textChanged(text) ==
    /\ controlStack = itemTypePages.IndexItem
    /\ editItem # None
    /\ text # indexName.text
    /\ root(items, editItem) # None
    /\ LET old     == indexName.oldText
           renamed == updateLines(items, dicts, editItem, old, text)
       IN  /\ dicts' = renamed.dicts
           /\ indexName' = [text |-> text, oldText |-> text]
           /\ items' = [items EXCEPT ![editItem].text = text]
    /\ lastCmd' = Cmd("indexName", None, TRUE, 1)
    /\ UNCHANGED <<rootRows, editItem, clipItem, enabled, controlStack>>
    /\ emitModified

\* ------------------------------------------------------- parameter editors
\* onChange(value) of the spin editor buildSpinEditor made for parameter
\* name of the edited index item
buildSpinEditor_onChange(name, value) ==
    /\ controlStack = itemTypePages.IndexItem
    /\ editItem # None
    /\ items[editItem].typeName \in DOMAIN indexTypes
    /\ \E r \in 1..Len(indexTypes[items[editItem].typeName]) :
          LET prm == indexTypes[items[editItem].typeName][r]
          IN  prm.name = name /\ prm.type = "int"
    /\ dicts[items[editItem].parameters][name] # IntVal(value)
    /\ dicts' = [dicts EXCEPT ![items[editItem].parameters] = SetKey(@, name, IntVal(value))]
    /\ lastCmd' = Cmd("spin", None, TRUE, 1)
    /\ UNCHANGED <<items, rootRows, editItem, clipItem, enabled, controlStack, indexName>>
    /\ emitModified

Next ==
    \/ on_actionInsertCallable_triggered(MaxItems)
    \/ on_actionInsertTicker_triggered(MaxItems)
    \/ on_actionInsertField_triggered(MaxItems)
    \/ on_actionInsertIndex_triggered(MaxItems)
    \/ \E n \in 1..MaxItems : on_treeView_clicked(n)
    \/ on_actionCopy_triggered
    \/ on_actionCut_triggered
    \/ on_actionPaste_triggered(MaxItems)
    \/ on_actionDelete_triggered
    \/ on_actionMoveDown_triggered
    \/ on_actionMoveUp_triggered

Spec == Init /\ [][Next]_vars

\* toSchema of item n: CallableItem.toSchema, TickerItem.toSchema,
\* FieldItem.toSchema, IndexItem.toSchema
RECURSIVE toSchema(_, _, _)
toSchema(its, ds, n) ==
    LET item == its[n]
        kids == [r \in 1..Len(item.rows) |-> toSchema(its, ds, item.rows[r])]
    IN  CASE item.kind = "CallableItem" ->
                [name |-> item.text, execType |-> item.execType,
                 srcType |-> item.srcType, messageTypes |-> item.messageTypes]
          [] item.kind = "TickerItem" ->
                [tickerId |-> item.tickerId, symbol |-> item.text,
                 exchange |-> item.exchange, strike |-> item.strike,
                 fields |-> kids]
          [] item.kind = "FieldItem" ->
                [name |-> item.text, id |-> item.id, indexes |-> kids]
          [] item.kind = "IndexItem" ->
                [typeName |-> item.typeName, indexes |-> kids,
                 parameters |-> ds[item.parameters], name |-> item.text]

\* TickerDesigner.schema
schema(its, ds, rootR) == [r \in 1..Len(rootR) |-> toSchema(its, ds, rootR[r])]

\* ----------------------------------------------------- opened documents
\* The document after on_actionOpenSchema_triggered read a schema of one
\* ticker with one field and the index items 3..N below it: item k >= 3 is
\* an SMA index named names[k] under item par[k], whose parameters are
\* series = series[k] and periods = periods[k].  Rows are in schema order.
RowsUnder(N, par, p) ==
    SelectSeq([k \in 1..N |-> k], LAMBDA k : k >= 2 /\ par[k] = p)

readSchema(N, par, names, series, periods) ==
    LET parent == [k \in 1..N |-> IF k = 1 THEN None ELSE IF k = 2 THEN 1 ELSE par[k]]
        made == [k \in 1..N |->
                   IF k = 1 THEN TickerItem_fromSchema(1, "AAPL")
                   ELSE IF k = 2 THEN [FieldItem("askPrice") EXCEPT !.id = 2]
                   ELSE [IndexItem("SMA", k - 2) EXCEPT !.text = names[k]]]
    IN  /\ items = [k \in 1..N |->
                     [made[k] EXCEPT !.parent = parent[k], !.model = TRUE,
                                     !.rows = RowsUnder(N, parent, k)]]
        /\ dicts = [d \in 1..(N - 2) |->
                     [key \in {"series", "periods"} |->
                        IF key = "series" THEN StrVal(series[d + 2])
                        ELSE IntVal(periods[d + 2])]]
        /\ rootRows = <<1>>
        /\ editItem = None
        /\ clipItem = None
        /\ enabled = AllDisabled
        /\ controlStack = 0
        /\ indexName = [text |-> "", oldText |-> ""]
        /\ savedSchema = ListValue(schema(items, dicts, rootRows))
        /\ windowModified = FALSE
        /\ lastCmd = Cmd("init", None, TRUE, 0)

\* ------------------------------------------------------------- SpecClip
\* copy, paste and the editors of the index page on an opened document of
\* ClipDocSize items: a chain of index items below the field, the first
\* named X, the others Z and reading the field or X
InitClip ==
    \E ref \in {"askPrice", "X"} :
        readSchema(ClipDocSize,
                   [k \in 3..ClipDocSize |-> k - 1],
                   [k \in 3..ClipDocSize |-> IF k = 3 THEN "X" ELSE "Z"],
                   [k \in 3..ClipDocSize |-> IF k = 3 THEN "askPrice" ELSE ref],
                   [k \in 3..ClipDocSize |-> 1])

\* the items, other than the edited one, that a copy command has marked
Copied == {n \in 1..Len(items) : items[n].copySource /\ n # editItem}

RenameTexts == {"Y"}

SpinValues == {1, 2}

NextClip ==
    \/ \E n \in 1..MaxClipItems : on_treeView_clicked(n)
    \/ Cardinality(Copied) < MaxClipCopied /\ on_actionCopy_triggered
    \/ on_actionPaste_triggered(MaxClipItems)
    \/ \E text \in RenameTexts : on_indexName_textChanged(text)
    \/ \E value \in SpinValues : buildSpinEditor_onChange("periods", value)

SpecClip == InitClip /\ [][NextClip]_vars

\* ------------------------------------------------------------ SpecClone
\* click, copy, one paste and the field combo on an opened document of
\* CloneDocSize items,
\* over every shape of the index items and several parameter values
InitClone ==
    \E par \in [3..CloneDocSize -> 2..(CloneDocSize - 1)],
       per \in {1, 2}, ref \in {"askPrice", "X3"} :
        /\ \A k \in 3..CloneDocSize : par[k] < k
        /\ readSchema(CloneDocSize, par,
                      [k \in 3..CloneDocSize |-> IF k = 3 THEN "X3" ELSE IF k = 4 THEN "X4" ELSE "X"],
                      [k \in 3..CloneDocSize |-> IF k = 3 THEN "askPrice" ELSE ref],
                      [k \in 3..CloneDocSize |-> IF k = 4 THEN per ELSE 1])

NextClone ==
    \/ \E n \in 1..MaxCloneItems : on_treeView_clicked(n)
    \/ Cardinality(Copied) < MaxCopied /\ on_actionCopy_triggered
    \/ Len(items) <= CloneDocSize /\ on_actionPaste_triggered(MaxCloneItems)
    \/ \E fid \in {None} \cup DOMAIN fieldTypes : on_fieldCombo_currentIndexChanged(fid)

SpecClone == InitClone /\ [][NextClone]_vars

\* ---------------------------------------------------------------- strings
\* str.startswith
startswith(s, p) == Len(s) >= Len(p) /\ SubSeq(s, 1, Len(p)) = p

UpperCase == "ABCDEFGHIJKLMNOPQRSTUVWXYZ"

LowerCase == "abcdefghijklmnopqrstuvwxyz"

Digits == "0123456789"

\* the position of the one-character string c in s, 0 when absent
IndexIn(s, c) ==
    IF \E i \in 1..Len(s) : SubSeq(s, i, i) = c
    THEN CHOOSE i \in 1..Len(s) :
            SubSeq(s, i, i) = c /\ \A j \in 1..(i - 1) : SubSeq(s, j, j) # c
    ELSE 0

\* case folding as QString compares with Qt::CaseInsensitive
RECURSIVE toLower(_)
toLower(s) ==
    IF Len(s) = 0 THEN s
    ELSE LET c == SubSeq(s, 1, 1)
             i == IndexIn(UpperCase, c)
         IN  (IF i = 0 THEN c ELSE SubSeq(LowerCase, i, i))
                 \o toLower(SubSeq(s, 2, Len(s)))

\* the test findItems(text, Qt.MatchStartsWith) makes on an item's text;
\* Qt.MatchCaseSensitive is not among the flags
MatchStartsWith(text, p) == startswith(toLower(text), toLower(p))

\* name.split('-')[1] -> [ok, v]; ok = FALSE is the IndexError
splitSecond(name) ==
    LET i == IndexIn(name, "-")
    IN  IF i = 0 THEN [ok |-> FALSE, v |-> ""]
        ELSE LET rest == SubSeq(name, i + 1, Len(name))
                 j    == IndexIn(rest, "-")
             IN  [ok |-> TRUE,
                  v  |-> IF j = 0 THEN rest ELSE SubSeq(rest, 1, j - 1)]

\* str.strip of blanks
RECURSIVE strip(_)
strip(s) ==
    IF Len(s) > 0 /\ SubSeq(s, 1, 1) = " " THEN strip(SubSeq(s, 2, Len(s)))
    ELSE IF Len(s) > 0 /\ SubSeq(s, Len(s), Len(s)) = " "
    THEN strip(SubSeq(s, 1, Len(s) - 1))
    ELSE s

\* the value of a string of decimal digits read after acc, -1 when a
\* character is no digit
RECURSIVE digitsValue(_, _)
digitsValue(s, acc) ==
    IF Len(s) = 0 THEN acc
    ELSE LET d == IndexIn(Digits, SubSeq(s, 1, 1))
         IN  IF d = 0 THEN -1
             ELSE digitsValue(SubSeq(s, 2, Len(s)), 10 * acc + (d - 1))

\* int(s) for a string s without '-' -> [ok, v]; ok = FALSE is the
\* ValueError.  Blanks around the number and a leading '+' are accepted.
int(s) ==
    LET t == strip(s)
        u == IF Len(t) > 0 /\ SubSeq(t, 1, 1) = "+" THEN SubSeq(t, 2, Len(t)) ELSE t
        v == IF Len(u) = 0 THEN -1 ELSE digitsValue(u, 0)
    IN  [ok |-> v >= 0, v |-> v]

\* '%s' % n for a natural number n
RECURSIVE decimal(_)
decimal(n) ==
    IF n < 10 THEN SubSeq(Digits, n + 1, n + 1)
    ELSE decimal(n \div 10) \o SubSeq(Digits, (n % 10) + 1, (n % 10) + 1)

\* ----------------------------------------------------------------- schema
\* A schema is a sequence of dictionaries, here records; data.get(key, d)
\* a faulty get: the default, whatever the dictionary holds
get_default(data, key, default) == default

get(data, key, default) == IF key \in DOMAIN data THEN data[key] ELSE default

\* the fromSchema class methods on the heap H = [items, dicts]; each returns
\* [H, id, ok]: the heap after the call, the item made, and ok = FALSE when
\* the call raised KeyError, the heap then being as before the call
Raised(H) == [H |-> H, id |-> None, ok |-> FALSE]

RECURSIVE IndexItem_fromSchema(_, _)
RECURSIVE fromSchemaRows(_, _, _, _, _)

\* for childschema in list: instance.appendRow(fromSchema(childschema)),
\* from position r on; kind is the class of the children
fromSchemaRows(H, instance, list, r, kind) ==
    IF r > Len(list) THEN [H |-> H, id |-> instance, ok |-> TRUE]
    ELSE LET made == IF kind = "IndexItem" THEN IndexItem_fromSchema(H, list[r])
                     ELSE \* FieldItem.fromSchema
                          IF {"name", "id"} \subseteq DOMAIN list[r]
                          THEN LET c  == Len(H.items) + 1
                                   H1 == [H EXCEPT !.items = Append(@,
                                            [FieldItem(list[r].name) EXCEPT
                                                !.id = list[r].id])]
                               IN  fromSchemaRows(H1, c, get(list[r], "indexes", <<>>),
                                                  1, "IndexItem")
                          ELSE Raised(H)
         IN  IF ~made.ok THEN Raised(H)
             ELSE fromSchemaRows(
                      [made.H EXCEPT !.items = AppendRow(@, instance, made.id)],
                      instance, list, r + 1, kind)

IndexItem_fromSchema(H, data) ==
    IF "typeName" \notin DOMAIN data THEN Raised(H)
    ELSE LET c  == Len(H.items) + 1
             d  == Len(H.dicts) + 1
             H1 == [items |-> Append(H.items,
                                 [IndexItem(data.typeName, d) EXCEPT
                                     !.text = get(data, "name", data.typeName)]),
                    dicts |-> Append(H.dicts, get(data, "parameters", <<>>))]
             made == fromSchemaRows(H1, c, get(data, "indexes", <<>>), 1, "IndexItem")
         IN  IF made.ok THEN made ELSE Raised(H)

\* TickerItem.fromSchema with the rows of its fields
TickerItem_fromSchemaRows(H, data) ==
    IF ~({"tickerId", "symbol"} \subseteq DOMAIN data) THEN Raised(H)
    ELSE LET c  == Len(H.items) + 1
             H1 == [H EXCEPT !.items =
                       Append(@, [TickerItem_fromSchema(data.tickerId, data.symbol) EXCEPT
                                     !.exchange = get(data, "exchange", ""),
                                     !.strike = get(data, "strike", 0)])]
             made == fromSchemaRows(H1, c, get(data, "fields", <<>>), 1, "FieldItem")
         IN  IF made.ok THEN made ELSE Raised(H)

\* CallableItem.fromSchema with every key it reads
CallableItem_fromSchemaData(H, data) ==
    LET c == Len(H.items) + 1
    IN  [H  |-> [H EXCEPT !.items = Append(@,
                    [CallableItem_fromSchema(get(data, "name", "Unknown")) EXCEPT
                        !.execType = get(data, "execType", ""),
                        !.srcType = get(data, "srcType", ""),
                        !.messageTypes = get(data, "messageTypes", <<>>)])],
         id |-> c, ok |-> TRUE]

\* a faulty addSchemaItem: the tickerId key is looked for first
addSchemaItem_tickerFirst(D, data) ==
    LET made == IF "tickerId" \in DOMAIN data THEN TickerItem_fromSchemaRows(D.H, data)
                ELSE IF "execType" \in DOMAIN data THEN CallableItem_fromSchemaData(D.H, data)
                ELSE Raised(D.H)
    IN  IF ~made.ok THEN [H |-> D.H, rootRows |-> D.rootRows, ok |-> FALSE]
        ELSE [H |-> [made.H EXCEPT !.items = SetModel(@, made.id, TRUE)],
              rootRows |-> Append(D.rootRows, made.id),
              ok |-> TRUE]

\* addSchemaItem(**data) on the document D = [H, rootRows] -> [H, rootRows,
\* ok]; ok = FALSE when it raised: a KeyError of addTickerItem is swallowed
\* and the raise at the end of addSchemaItem is reached, as for an entry
\* with neither key
addSchemaItem(D, data) ==
    LET made == IF "execType" \in DOMAIN data THEN CallableItem_fromSchemaData(D.H, data)
                ELSE IF "tickerId" \in DOMAIN data THEN TickerItem_fromSchemaRows(D.H, data)
                ELSE Raised(D.H)
    IN  IF ~made.ok THEN [H |-> D.H, rootRows |-> D.rootRows, ok |-> FALSE]
        ELSE [H |-> [made.H EXCEPT !.items = SetModel(@, made.id, TRUE)],
              rootRows |-> Append(D.rootRows, made.id),
              ok |-> TRUE]

\* the loop of readSchema over the entries from position r on; it stops at
\* the first entry that raises
RECURSIVE readSchemaEntries(_, _, _)
readSchemaEntries(D, entries, r) ==
    IF r > Len(entries) THEN D
    ELSE LET added == addSchemaItem(D, entries[r])
         IN  IF added.ok THEN readSchemaEntries(added, entries, r + 1) ELSE added

\* a faulty clear: the items stay in the model
clear_nothing(its, rootR, clip) == its

\* model.clear(): every item of the model is deleted
clear(its, rootR, clip) ==
    LET gone == TreeOf(its, rootR)
    IN  [k \in 1..Len(its) |-> IF k \in gone THEN Deleted(its[k], k = clip) ELSE its[k]]

\* ------------------------------------------------------------ open schema
\* on_actionOpenSchema_triggered for a file that unpickles to schema:
\* resetSchema, then readSchema, which on any exception resets again.
\* resetSchema leaves editItem and clipItem as they are.
on_actionOpenSchema_triggered(sch, capacity) ==
    LET D0   == [H |-> [items |-> clear(items, rootRows, clipItem), dicts |-> dicts],
                 rootRows |-> <<>>, ok |-> TRUE]
        read == readSchemaEntries(D0, sch, 1)
    IN  /\ Len(read.H.items) <= capacity
        /\ dicts' = read.H.dicts
        /\ IF read.ok
           THEN /\ items' = read.H.items
                /\ rootRows' = read.rootRows
           ELSE \* QMessageBox.warning; self.resetSchema()
                /\ items' = clear(read.H.items, read.rootRows, clipItem)
                /\ rootRows' = <<>>
        /\ controlStack' = 0
        /\ enabled' = AllDisabled
        /\ savedSchema' = IF read.ok THEN ListValue(sch) ELSE savedSchema
        /\ windowModified' = FALSE
        /\ lastCmd' = Cmd("open", None, read.ok, 0)
        /\ UNCHANGED <<editItem, clipItem, indexName>>

\* --------------------------------------------------- callableMessageTypes
\* the type names of message.registry shown in the list of message types
messageTypeNames == {"TickPrice", "TickSize"}

\* on_callableMessageTypes_itemChanged(messageItem), the user toggling the
\* check box of the message type key on the callable page; the handler
\* emits nothing
on_callableMessageTypes_itemChanged(key) ==
    /\ controlStack = itemTypePages.CallableItem
    /\ editItem # None
    /\ LET item    == items[editItem]
           has     == \E r \in 1..Len(item.messageTypes) : item.messageTypes[r] = key
           checked == ~has
       IN  items' = [items EXCEPT ![editItem].messageTypes =
                        IF checked /\ ~has THEN Append(@, key)
                        ELSE IF ~checked /\ has THEN SelectSeq(@, LAMBDA k : k # key)
                        ELSE @]
    /\ lastCmd' = Cmd("callableMessageTypes", None, TRUE, 0)
    /\ UNCHANGED <<dicts, rootRows, editItem, clipItem, enabled, controlStack, indexName>>
    /\ emitModified

\* ------------------------------------------------- callable radio buttons
\* the dynamic properties setupWidgets sets on the radio buttons of the
\* callable page
buttonProperties ==
    [callableMessageHandlerButton |-> [execType |-> "message"],
     callableSingleShotButton     |-> [execType |-> "singleshot"],
     callableThreadButton         |-> [execType |-> "thread"],
     callableScriptButton         |-> [scrType |-> "script"],
     callableSysPathButton        |-> [scrType |-> "syspath"]]

\* the attribute name each on_<button>_clicked handler is made with
buttonSlots ==
    [callableSingleShotButton     |-> "execType",
     callableThreadButton         |-> "execType",
     callableMessageHandlerButton |-> "execType",
     callableScriptButton         |-> "srcType",
     callableSysPathButton        |-> "srcType"]

\* str(sender.property(name).toString()): a property that was never set is
\* an invalid QVariant, whose string is empty
property(sender, name) ==
    IF name \in DOMAIN buttonProperties[sender]
    THEN buttonProperties[sender][name] ELSE ""

\* the handler itemSenderPropMatchMethod(name) makes, called by a click on
\* the radio button sender of the callable page (checked is True)
itemSenderPropMatchMethod(name, sender) ==
    /\ controlStack = itemTypePages.CallableItem
    /\ editItem # None
    /\ buttonSlots[sender] = name
    /\ items' = [items EXCEPT ![editItem][name] = property(sender, name)]
    /\ lastCmd' = Cmd(sender, None, TRUE, 1)
    /\ UNCHANGED <<dicts, rootRows, editItem, clipItem, enabled, controlStack, indexName>>
    /\ emitModified

\* ------------------------------------------------------------------ idSpin
\* on_idSpin_valueChanged(value), the user changing the id spin box of the
\* ticker page
on_idSpin_valueChanged(value) ==
    /\ controlStack = itemTypePages.TickerItem
    /\ editItem # None
    /\ value # items[editItem].tickerId
    /\ items' = [items EXCEPT ![editItem].tickerId = value]
    /\ lastCmd' = Cmd("idSpin", None, TRUE, 1)
    /\ UNCHANGED <<dicts, rootRows, editItem, clipItem, enabled, controlStack, indexName>>
    /\ emitModified

\* a faulty suffix: the largest number found, not the one after it
autoSuffix_offset(its, item, matches) ==
    Max({1} \cup
        {int(splitSecond(its[m].text).v).v :
            m \in {k \in matches :
                     /\ root(its, item) = root(its, k)
                     /\ splitSecond(its[k].text).ok
                     /\ int(splitSecond(its[k].text).v).ok}})

\* -------------------------------------------------------------- indexCombo
\* the suffix loop of maybeChangeIndexName over the set of matches
autoSuffix(its, item, matches) ==
    Max({1} \cup
        {int(splitSecond(its[m].text).v).v + 1 :
            m \in {k \in matches :
                     /\ root(its, item) = root(its, k)
                     /\ splitSecond(its[k].text).ok
                     /\ int(splitSecond(its[k].text).v).ok}})

\* maybeChangeIndexName(item, previous) with current the text of the name
\* line edit -> the text the line edit has afterwards
maybeChangeIndexName(its, item, previous, current) ==
    IF current \in {defaultText, ""} \/ startswith(current, previous \o "-")
    THEN LET matches == {m \in Attached(its) :
                            MatchStartsWith(its[m].text, its[item].typeName)}
         IN  its[item].typeName \o "-" \o decimal(autoSuffix(its, item, matches))
    ELSE current

\* a faulty on_indexCombo_currentIndexChanged: the generated name is set
\* on the item and the parameters of the other items are left alone
on_indexCombo_currentIndexChanged_unpropagated(typeName) ==
    /\ controlStack = itemTypePages.IndexItem
    /\ editItem # None
    /\ typeName \in DOMAIN indexTypes
    /\ typeName # items[editItem].typeName
    /\ root(items, editItem) # None
    /\ LET item   == editItem
           old    == items[item].typeName
           typed  == [items EXCEPT ![item].typeName = typeName]
           built  == [dicts EXCEPT ![items[item].parameters] =
                         buildIndexParamWidgets(indexTypes[typeName], 1, @)]
           text   == maybeChangeIndexName(typed, item, old, indexName.text)
       IN  /\ dicts' = built
           /\ indexName' = [text |-> text, oldText |-> text]
           /\ items' = [typed EXCEPT ![item].text = text]
           /\ lastCmd' = Cmd("indexCombo", None, TRUE, IF text # indexName.text THEN 3 ELSE 1)
    /\ UNCHANGED <<rootRows, editItem, clipItem, enabled, controlStack>>
    /\ emitModified

\* on_indexCombo_currentIndexChanged, the user choosing the entry of index
\* type typeName on the index page; the text maybeChangeIndexName sets on
\* the name line edit runs on_indexName_textChanged
on_indexCombo_currentIndexChanged(typeName) ==
    /\ controlStack = itemTypePages.IndexItem
    /\ editItem # None
    /\ typeName \in DOMAIN indexTypes
    /\ typeName # items[editItem].typeName
    /\ root(items, editItem) # None
    /\ LET item   == editItem
           old    == items[item].typeName
           typed  == [items EXCEPT ![item].typeName = typeName]
           built  == [dicts EXCEPT ![items[item].parameters] =
                         buildIndexParamWidgets(indexTypes[typeName], 1, @)]
           text   == maybeChangeIndexName(typed, item, old, indexName.text)
       IN  IF text # indexName.text
           THEN \* on_indexName_textChanged, maybeChangeIndexName and this
                \* handler each emit modified
                /\ dicts' = updateLines(typed, built, item, indexName.oldText, text).dicts
                /\ indexName' = [text |-> text, oldText |-> text]
                /\ items' = [typed EXCEPT ![item].text = text]
                /\ lastCmd' = Cmd("indexCombo", None, TRUE, 3)
           ELSE /\ dicts' = built
                /\ items' = typed
                /\ lastCmd' = Cmd("indexCombo", None, TRUE, 1)
                /\ UNCHANGED indexName
    /\ UNCHANGED <<rootRows, editItem, clipItem, enabled, controlStack>>
    /\ emitModified

\* -------------------------------------------------- documents from files
\* the schema of an index item
IndexSchema(typeName, name, series, indexes) ==
    [typeName |-> typeName, name |-> name, indexes |-> indexes,
     parameters |-> [key \in {"series", "periods"} |->
                        IF key = "series" THEN StrVal(series) ELSE IntVal(1)]]

\* one ticker askPrice field with the given index schemas
TickerSchema(tickerId, symbol, indexes) ==
    [tickerId |-> tickerId, symbol |-> symbol,
     fields |-> <<[name |-> "askPrice", id |-> 2, indexes |-> indexes]>>]

\* a callable and a ticker whose id is negative
CallableSchema ==
    <<[name |-> "cb", execType |-> "thread", srcType |-> "script",
       messageTypes |-> <<"TickPrice">>],
      [tickerId |-> -5, symbol |-> "AAPL", exchange |-> "SMART", strike |-> 5,
       fields |-> <<>>]>>

\* entries with the mandatory keys only, and one with both execType and
\* tickerId
SparseSchema ==
    <<[tickerId |-> 2, symbol |-> "MSFT"],
      [execType |-> "message", tickerId |-> 7, symbol |-> "IBM"],
      [tickerId |-> 3, symbol |-> "AAPL", fields |-> <<[name |-> "bidPrice", id |-> 1]>>]>>

\* two tickers; under the first, SMA-1 is read by EMA-3 below it and reads
\* the given series, under the second EMA-7 reads SMA-1 too
TwoTickerSchema(series) ==
    <<TickerSchema(1, "AAPL",
          <<IndexSchema("SMA", "SMA-1", series,
                <<IndexSchema("EMA", "EMA-3", "SMA-1", <<>>)>>)>>),
      TickerSchema(2, "MSFT",
          <<IndexSchema("EMA", "EMA-7", "SMA-1", <<>>)>>)>>

\* one ticker with an index of no type yet and two SMA indexes of the
\* given names
NamesSchema(first, second) ==
    <<TickerSchema(1, "AAPL",
          <<[typeName |-> "Unknown"],
            IndexSchema("SMA", first, "askPrice", <<>>),
            IndexSchema("SMA", second, "", <<>>)>>)>>

\* schemas with an entry that cannot be read: one with no execType and no
\* tickerId, a ticker with no symbol, a field with no id, an index with no
\* typeName
BadSchemas ==
    {<<TickerSchema(1, "AAPL", <<>>), [symbol |-> "MSFT"]>>,
     <<TickerSchema(1, "AAPL", <<[name |-> "SMA-1"]>>)>>,
     <<TickerSchema(1, "AAPL", <<>>), [tickerId |-> 2]>>,
     <<[name |-> "cb", execType |-> ""],
       [tickerId |-> 2, symbol |-> "MSFT", fields |-> <<[name |-> "askPrice"]>>]>>}

Schemas ==
    {CallableSchema, SparseSchema, TwoTickerSchema("askPrice"),
     NamesSchema("SMA-1", "SMA-3")}
        \cup BadSchemas

TickerIds == {1, 2}

\* files opened, tickers and callables inserted, ticker ids edited
NextLoad ==
    \/ /\ Len(items) <= MaxOpened
       /\ \E sch \in Schemas : on_actionOpenSchema_triggered(sch, MaxLoadItems)
    \/ \E n \in 1..MaxLoadItems : on_treeView_clicked(n)
    \/ on_actionInsertCallable_triggered(MaxLoadItems)
    \/ on_actionInsertTicker_triggered(MaxLoadItems)
    \/ \E value \in TickerIds : on_idSpin_valueChanged(value)
    \/ \E key \in messageTypeNames : on_callableMessageTypes_itemChanged(key)

SpecLoad == Init /\ [][NextLoad]_vars

\* --------------------------------------------------------- SpecCallable
\* the callable page: a file with a callable opened, callables inserted,
\* items clicked, the radio buttons and the message types of the page
NextCallable ==
    \/ /\ Len(items) <= MaxOpened
       /\ on_actionOpenSchema_triggered(CallableSchema, MaxCallableItems)
    \/ \E n \in 1..MaxCallableItems : on_treeView_clicked(n)
    \/ on_actionInsertCallable_triggered(MaxCallableItems)
    \/ \E key \in messageTypeNames : on_callableMessageTypes_itemChanged(key)
    \/ \E sender \in DOMAIN buttonSlots :
           itemSenderPropMatchMethod(buttonSlots[sender], sender)

SpecCallable == Init /\ [][NextCallable]_vars

\* ------------------------------------------------------------ SpecReset
\* on_actionNewSchema_triggered and on_actionCloseSchema_triggered, the
\* user letting checkClose go on: resetSchema, which leaves editItem and
\* clipItem as they are
on_actionNewSchema_triggered ==
    /\ items' = clear(items, rootRows, clipItem)
    /\ rootRows' = <<>>
    /\ controlStack' = 0
    /\ enabled' = AllDisabled
    /\ windowModified' = FALSE
    /\ lastCmd' = Cmd("new", None, TRUE, 0)
    /\ UNCHANGED <<dicts, editItem, clipItem, indexName, savedSchema>>

\* a file that loads and a file that does not
ResetSchemas ==
    {<<TickerSchema(1, "AAPL", <<>>)>>,
     <<TickerSchema(1, "AAPL", <<>>), [symbol |-> "MSFT"]>>}

\* documents built, copied from and cut from, then reset by New, Close or
\* Open, and worked on again
NextReset ==
    \/ \E n \in 1..MaxResetItems : on_treeView_clicked(n)
    \/ on_actionInsertTicker_triggered(MaxResetItems)
    \/ on_actionInsertField_triggered(MaxResetItems)
    \/ on_actionCopy_triggered
    \/ on_actionCut_triggered
    \/ on_actionPaste_triggered(MaxResetItems)
    \/ on_actionNewSchema_triggered
    \/ \E sch \in ResetSchemas : on_actionOpenSchema_triggered(sch, MaxResetItems)

SpecReset == Init /\ [][NextReset]_vars

\* --------------------------------------------------------- SpecModified
\* a file as the window writes it, every key present: one ticker, its
\* askPrice field and two indexes of the field
ModifiedSchema ==
    <<[tickerId |-> 1, symbol |-> "AAPL", exchange |-> "", strike |-> 0,
       fields |-> <<[name |-> "askPrice", id |-> 2,
                     indexes |-> <<IndexSchema("SMA", "SMA-1", "askPrice", <<>>),
                                   IndexSchema("EMA", "EMA-1", "askPrice", <<>>)>>]>>]>>

\* the file opened in the empty window, then items clicked, moved, deleted
\* and inserted and the ticker id edited
NextModified ==
    \/ /\ Len(items) = 0
       /\ on_actionOpenSchema_triggered(ModifiedSchema, MaxModifiedItems)
    \/ \E n \in 1..MaxModifiedItems : on_treeView_clicked(n)
    \/ on_actionMoveDown_triggered
    \/ on_actionMoveUp_triggered
    \/ on_actionDelete_triggered
    \/ on_actionInsertIndex_triggered(MaxModifiedItems)
    \/ \E value \in TickerIds : on_idSpin_valueChanged(value)

SpecModified == Init /\ [][NextModified]_vars

\* the window constructed with the name of a file that unpickles to sch
Opened(sch) ==
    LET read == readSchemaEntries([H |-> [items |-> <<>>, dicts |-> <<>>],
                                   rootRows |-> <<>>, ok |-> TRUE], sch, 1)
    IN  /\ items = read.H.items
        /\ dicts = read.H.dicts
        /\ rootRows = read.rootRows
        /\ editItem = None
        /\ clipItem = None
        /\ enabled = AllDisabled
        /\ controlStack = 0
        /\ indexName = [text |-> "", oldText |-> ""]
        /\ savedSchema = IF read.ok THEN ListValue(sch) ELSE NoneValue
        /\ windowModified = FALSE
        /\ lastCmd = Cmd("open", None, read.ok, 0)

\* a ticker whose symbol has the form of an index name
SymbolSchema == <<TickerSchema(1, "SMA-2", <<[typeName |-> "Unknown"]>>)>>

NameSchemas ==
    {TwoTickerSchema("askPrice"), TwoTickerSchema("SMA-1"),
     NamesSchema("SMA-1", "SMA-3"), NamesSchema("SMA-3-x", "SMA-x"),
     NamesSchema("sma-7", "SMAX-5"), SymbolSchema}

InitNames == \E sch \in NameSchemas : Opened(sch)

NamesRenameTexts == {"Y", ""}

\* the entries of the index combo below the entry of type typeName
TypesAfter(typeName) ==
    LET order == <<"SMA", "EMA">>
    IN  {order[i] : i \in {k \in 1..Len(order) :
                             \A j \in k..Len(order) : order[j] # typeName}}

\* index names and index types edited on an opened document; a type is
\* changed to a later entry of the combo only
NextNames ==
    \/ \E n \in 1..MaxNamesItems : on_treeView_clicked(n)
    \/ \E typeName \in DOMAIN indexTypes :
          /\ editItem # None
          /\ typeName \in TypesAfter(items[editItem].typeName)
          /\ on_indexCombo_currentIndexChanged(typeName)
    \/ \E text \in NamesRenameTexts : on_indexName_textChanged(text)

SpecNames == InitNames /\ [][NextNames]_vars

\* ------------------------------------------------------ model sanity
InTree == TreeOf(items, rootRows)

Sane ==
    /\ InTree = Attached(items)
    /\ \A n \in InTree : \A r \in 1..Len(items[n].rows) :
          items[n].rows[r] # None /\ items[items[n].rows[r]].parent = n
    /\ enabled.paste => clipItem # None
    /\ (\E f \in DOMAIN enabled : enabled[f]) => editItem \in InTree
    /\ clipItem # None => (items[clipItem].deleted \/ clipItem \in InTree)
    /\ enabled.up => RowOf(items, rootRows, editItem) > 1
    /\ enabled.down => RowOf(items, rootRows, editItem) < Len(RowsOfParent(items, rootRows, editItem))

\* ------------------------------------------------------------ properties
\* the clip item is an item of the document
ClipInDoc == clipItem # None /\ ~items[clipItem].deleted /\ clipItem \in InTree

\* the step pastes a cut item that is in the document on a target that
\* accepts it and is not the item itself
CutPasteLegal ==
    /\ lastCmd'.op = "paste"
    /\ ClipInDoc
    /\ items[clipItem].cutSource
    /\ canPaste(items[editItem], items[clipItem].kind)
    /\ clipItem # editItem

\* the step pastes a copied item that is in the document
CopyPasteStep ==
    /\ lastCmd'.op = "paste"
    /\ ClipInDoc
    /\ ~items[clipItem].cutSource

\* the pairs <<parent, row>> of the heap its at which item n is a child
Occurrences(its, n) ==
    {pr \in (1..Len(its)) \X (1..Len(its)) :
        pr[2] <= Len(its[pr[1]].rows) /\ its[pr[1]].rows[pr[2]] = n}

\* the variants a child of a parent of variant parentKind may have
LegalChild(parentKind, kind) ==
    \/ parentKind = "TickerItem" /\ kind = "FieldItem"
    \/ parentKind \in {"FieldItem", "IndexItem"} /\ kind = "IndexItem"

\* C1: in every reachable state the children of the root are Callable or
\* Ticker items, the children of a Ticker are Fields, the children of a
\* Field or an Index are Indexes, and a Callable has no children
C1_StructuralLegality ==
    /\ \A r \in 1..Len(rootRows) :
          items[rootRows[r]].kind \in {"CallableItem", "TickerItem"}
    /\ \A n \in InTree : \A r \in 1..Len(items[n].rows) :
          LegalChild(items[n].kind, items[items[n].rows[r]].kind)

\* C2: a paste changes the document only when the clip reference is set,
\* the target accepts the clip item's variant, and the clip item is not a
\* cut source that is the target itself
C2_PasteOnlyWhenLegal ==
    [][ (lastCmd'.op = "paste" /\ (items' # items \/ rootRows' # rootRows))
        => /\ clipItem # None
           /\ canPaste(items[editItem], KindOf(items, clipItem))
           /\ ~(items[clipItem].cutSource /\ clipItem = editItem) ]_vars

\* item a of heap A and item b of heap B head trees of the same shape whose
\* items agree in variant, name, field id, index type and parameter values
RECURSIVE Isomorphic(_, _, _, _)
Isomorphic(A, a, B, b) ==
    LET x == A.items[a]
        y == B.items[b]
    IN  /\ x.kind = y.kind
        /\ x.text = y.text
        /\ x.id = y.id
        /\ x.typeName = y.typeName
        /\ x.kind = "IndexItem" => A.dicts[x.parameters] = B.dicts[y.parameters]
        /\ Len(x.rows) = Len(y.rows)
        /\ \A r \in 1..Len(x.rows) : Isomorphic(A, x.rows[r], B, y.rows[r])

\* C3: the clone a paste makes of a copied Field or Index item is a new
\* item of the same variant and data whose descendants are clones of the
\* source's descendants, in the same order: the two trees are isomorphic
C3_CloneIsomorphic ==
    [][ CopyPasteStep
        => /\ lastCmd'.new \notin 1..Len(items)
           /\ Isomorphic([items |-> items, dicts |-> dicts], clipItem,
                         [items |-> items', dicts |-> dicts'], lastCmd'.new) ]_vars

\* C4: no two Field children of the same Ticker have the same field id
C4_FieldIdsUnique ==
    \A t \in InTree : items[t].kind = "TickerItem" =>
        \A r1, r2 \in 1..Len(items[t].rows) :
            LET a == items[items[t].rows[r1]]
                b == items[items[t].rows[r2]]
            IN  (r1 # r2 /\ a.kind = "FieldItem" /\ b.kind = "FieldItem")
                    => a.id # b.id

\* C5: at most one item of the document has cutSource or copySource set
C5_SingleClipState ==
    Cardinality({n \in InTree : items[n].cutSource \/ items[n].copySource}) <= 1

C7_ClipStateCleared ==
    [][ CutPasteLegal
        => ~items'[clipItem].cutSource /\ ~items'[clipItem].copySource ]_vars

\* C8: after the delete of the clip item or of one of its ancestors the
\* clip reference is null and no item of the document has cutSource or
\* copySource set
C8_DeleteClearsClip ==
    [][ (/\ lastCmd'.op = "delete"
         /\ ClipInDoc
         /\ clipItem \in SubtreeOf(items, editItem))
        => /\ clipItem' = None
           /\ \A n \in TreeOf(items', rootRows') :
                 ~items'[n].cutSource /\ ~items'[n].copySource ]_vars

IndexItems(its) ==
    {n \in 1..Len(its) : its[n].kind = "IndexItem" /\ ~its[n].deleted}

\* no two Index items hold the same parameters dictionary
NoSharedParameters(its) ==
    \A a, b \in IndexItems(its) : a # b => its[a].parameters # its[b].parameters

\* the items made by pastes on a document opened with ClipDocSize items
Clones == {n \in InTree : n > ClipDocSize}

\* the topmost pasted item above or at clone n
RECURSIVE CloneTop(_)
CloneTop(n) ==
    IF items[n].parent > ClipDocSize THEN CloneTop(items[n].parent) ELSE n

\* the step edits the parameter value, the name or the children of editItem
EditStep ==
    \/ lastCmd'.op \in {"spin", "indexName", "insertIndex"}
    \/ lastCmd'.op = "paste" /\ ~items[clipItem].cutSource

\* item n has in the next state the name, children and parameter values it has
Untouched(n) ==
    /\ items'[n].text = items[n].text
    /\ items'[n].rows = items[n].rows
    /\ items[n].kind = "IndexItem" =>
          dicts'[items'[n].parameters] = dicts[items[n].parameters]

\* C10 as stated: an edit of the parameter value, name or children of a
\* pasted clone of the copied Index item changes neither an item of the
\* source's subtree nor an item of another pasted clone, and no two Index
\* items share a parameters dictionary
C10_ClonesIndependent ==
    [][ (/\ EditStep
         /\ ClipInDoc
         /\ items[clipItem].kind = "IndexItem"
         /\ editItem \in Clones)
        => /\ \A n \in SubtreeOf(items, clipItem) \ Clones : Untouched(n)
           /\ \A n \in Clones : CloneTop(n) # CloneTop(editItem) => Untouched(n)
           /\ NoSharedParameters(items') ]_vars

\* C10: no two Index items share a parameters dictionary, and an edit of
\* the parameter value, name or children of an Index item, a pasted clone
\* included, changes no other item's name or children and no other item's
\* parameter values, but for a rename: it rewrites, in every other Index
\* item below the same root, the parameter values equal to the old name
C10_ClonesIndependentButNames ==
    [][ EditStep
        => /\ NoSharedParameters(items')
           /\ \A n \in (1..Len(items)) \ {editItem} :
                 /\ items'[n].text = items[n].text
                 /\ items'[n].rows = items[n].rows
                 /\ items'[n].parameters = items[n].parameters
                 /\ (items[n].kind = "IndexItem" /\ ~items[n].deleted) =>
                       LET old == dicts[items[n].parameters]
                           new == dicts'[items[n].parameters]
                           scope == children(items, root(items, editItem))
                           hit(key) ==
                               /\ lastCmd'.op = "indexName"
                               /\ \E r \in 1..Len(scope) : scope[r] = n
                               /\ ValueEq(old[key], indexName.oldText)
                       IN  /\ DOMAIN new = DOMAIN old
                           /\ \A key \in DOMAIN old :
                                 new[key] = IF hit(key) THEN StrVal(indexName'.text)
                                            ELSE old[key] ]_vars

\* the copied Index item has been pasted twice and the parameter value of
\* one clone edited since: the other clone still has the source's name and
\* parameter values, the edited clone has other values
C10_Witness ==
    /\ lastCmd.op = "spin"
    /\ ClipInDoc
    /\ items[clipItem].kind = "IndexItem" /\ items[clipItem].copySource
    /\ editItem \in Clones
    /\ \E n \in Clones \ {editItem} :
          /\ items[n].kind = "IndexItem"
          /\ items[n].text = items[clipItem].text
          /\ items[editItem].text = items[clipItem].text
          /\ dicts[items[n].parameters] = dicts[items[clipItem].parameters]
          /\ dicts[items[editItem].parameters] # dicts[items[clipItem].parameters]
          /\ items[n].parameters # items[editItem].parameters

\* item a of heap A and item b of heap B head trees of the same shape whose
\* items agree in variant and in every attribute but the clip state
RECURSIVE SameTree(_, _, _, _)
SameTree(A, a, B, b) ==
    LET x == A.items[a]
        y == B.items[b]
    IN  /\ x.kind = y.kind
        /\ x.text = y.text
        /\ x.id = y.id
        /\ x.typeName = y.typeName
        /\ x.tickerId = y.tickerId
        /\ x.execType = y.execType
        /\ x.srcType = y.srcType
        /\ x.exchange = y.exchange
        /\ x.strike = y.strike
        /\ x.messageTypes = y.messageTypes
        /\ x.kind = "IndexItem" => A.dicts[x.parameters] = B.dicts[y.parameters]
        /\ Len(x.rows) = Len(y.rows)
        /\ \A r \in 1..Len(x.rows) : SameTree(A, x.rows[r], B, y.rows[r])

\* the document read from the schema of the current document
Reread ==
    readSchemaEntries([H |-> [items |-> <<>>, dicts |-> <<>>],
                       rootRows |-> <<>>, ok |-> TRUE],
                      schema(items, dicts, rootRows), 1)

\* C11: reading the schema written from the document succeeds and yields
\* the same roots in the same order, with the same variant, the same
\* child order and equal attributes at every position, clip state apart
C11_RoundTrip ==
    /\ Reread.ok
    /\ Len(Reread.rootRows) = Len(rootRows)
    /\ \A r \in 1..Len(rootRows) :
          SameTree([items |-> items, dicts |-> dicts], rootRows[r],
                   Reread.H, Reread.rootRows[r])

\* C12: when reading an entry of an opened schema fails, the document has
\* no root item afterwards and no item is left in the model, whatever was
\* built before the failing entry
C12_FailedLoadEmpties ==
    [][ (lastCmd'.op = "open" /\ ~lastCmd'.ok)
        => /\ rootRows' = <<>>
           /\ Attached(items') = {} ]_vars

\* a load has failed on its second entry, after a ticker was built from
\* the first: the document is empty and the items built are gone
C12_Witness ==
    /\ lastCmd.op = "open" /\ ~lastCmd.ok
    /\ rootRows = <<>>
    /\ Cardinality({n \in 1..Len(items) : items[n].deleted}) >= 2

\* the index items other than n below the root item of n
OtherIndexItems(its, n) ==
    {m \in SubtreeOf(its, root(its, n)) \ {n} : its[m].kind = "IndexItem"}

\* the (item, key) pairs among the items of scope whose parameter value
\* is the string name
References(its, ds, scope, name) ==
    UNION {{<<m, key>> : key \in {k \in DOMAIN ds[its[m].parameters] :
                                      ValueEq(ds[its[m].parameters][k], name)}} :
           m \in {i \in scope : its[i].kind = "IndexItem"}}

\* C13: when the name of the edited item is changed in the name line edit,
\* every parameter value equal to the old name on every other index item
\* below the same root item holds the new name afterwards, and the count
\* updateLines returns is the number of (item, key) pairs rewritten
C13_RenameRewrites ==
    [][ lastCmd'.op = "indexName"
        => LET old   == items[editItem].text
               new   == items'[editItem].text
               pairs == References(items, dicts, OtherIndexItems(items, editItem), old)
           IN  /\ \A p \in pairs : dicts'[items[p[1]].parameters][p[2]] = StrVal(new)
               /\ updateLines(items, dicts, editItem, old, new).modified
                     = Cardinality(pairs) ]_vars

\* an index item was renamed Y and another index item below the same root
\* item holds Y in a parameter
C13_Witness ==
    /\ lastCmd.op = "indexName"
    /\ items[editItem].text = "Y"
    /\ References(items, dicts, OtherIndexItems(items, editItem), "Y") # {}

\* C14: a change of the name in the name line edit leaves unchanged the
\* parameters of the renamed item itself and of every index item that is
\* not below the same root item
C14_RenameScope ==
    [][ lastCmd'.op = "indexName"
        => \A m \in 1..Len(items) :
              ( /\ items[m].kind = "IndexItem"
                /\ (m = editItem \/ root(items, m) # root(items, editItem)) )
              => dicts'[items[m].parameters] = dicts[items[m].parameters] ]_vars

\* an index item was renamed from SMA-1 to Y; its own parameter and a
\* parameter below another root item still hold SMA-1, a parameter below
\* its own root item holds Y
C14_Witness ==
    /\ lastCmd.op = "indexName"
    /\ items[editItem].text = "Y"
    /\ References(items, dicts, {editItem}, "SMA-1") # {}
    /\ References(items, dicts, OtherIndexItems(items, editItem), "Y") # {}
    /\ \E m \in InTree :
          /\ items[m].kind = "IndexItem"
          /\ root(items, m) # root(items, editItem)
          /\ References(items, dicts, {m}, "SMA-1") # {}

\* the integers tried as the <N> of a name <typeName>-<N>
Suffixes == 0..12

\* name is typeName, a dash and the decimal form of an integer
ExactForm(name, typeName) ==
    \E k \in Suffixes : name = typeName \o "-" \o decimal(k)

\* the integers N for which an item below the root item of n is named
\* <typeName>-<N>
ExactNumbers(its, n, typeName) ==
    {k \in Suffixes : \E m \in SubtreeOf(its, root(its, n)) :
                          its[m].text = typeName \o "-" \o decimal(k)}

\* a change of the index type of the edited item that changed its name
Renamed == lastCmd'.op = "indexCombo" /\ items'[editItem].text # items[editItem].text

\* C15: the name a change of index type generates is <newTypeName>-<N>,
\* N being 1 plus the largest integer among the names of exactly that
\* form below the same root item, and 1 when there is none
C15_AutoName ==
    [][ Renamed
        => LET typeName == items'[editItem].typeName
               N == 1 + Max({0} \cup ExactNumbers(items, editItem, typeName))
           IN  items'[editItem].text = typeName \o "-" \o decimal(N) ]_vars

\* C16: a change of index type changes the name only when the name was
\* the default name, empty, or <previousTypeName>-<integer>
C16_RenameOnlyDefaults ==
    [][ Renamed
        => LET current  == items[editItem].text
               previous == items[editItem].typeName
           IN  current \in {defaultText, ""} \/ ExactForm(current, previous) ]_vars

\* C17: the name a change of index type generates is the name of no other
\* item below the same root item
C17_AutoNameFresh ==
    [][ Renamed
        => \A m \in SubtreeOf(items', root(items', editItem)) \ {editItem} :
              items'[m].text # items'[editItem].text ]_vars

\* an index item was given type SMA and the name SMA-4 below a root item
\* that holds items named SMA-1 and SMA-3
C17_Witness ==
    /\ lastCmd.op = "indexCombo"
    /\ items[editItem].text = "SMA-4"
    /\ {"SMA-1", "SMA-3"} \subseteq
          {items[m].text : m \in SubtreeOf(items, root(items, editItem)) \ {editItem}}

\* C18: when a change of index type changes the name of the item, every
\* parameter of the other index items below the same root item that held
\* the old name holds the new name after the same step
C18_AutoNamePropagated ==
    [][ Renamed
        => LET old == items[editItem].text
               new == items'[editItem].text
           IN  \A p \in References(items, dicts, OtherIndexItems(items, editItem), old) :
                  dicts'[items[p[1]].parameters][p[2]] = StrVal(new) ]_vars

\* an index item named SMA-1 was given type EMA and the name EMA-4, and a
\* parameter of another index item below the same root item holds EMA-4
C18_Witness ==
    /\ lastCmd.op = "indexCombo"
    /\ items[editItem].text = "EMA-4"
    /\ References(items, dicts, OtherIndexItems(items, editItem), "EMA-4") # {}

\* the rows of the top level that hold a ticker item
TickerRows(its, rootR) == {r \in 1..Len(rootR) : its[rootR[r]].kind = "TickerItem"}

\* C19: no two ticker items of the top level have the same tickerId
C19_TickerIdsUnique ==
    \A r, q \in TickerRows(items, rootRows) :
        r # q => items[rootRows[r]].tickerId # items[rootRows[q]].tickerId

\* C20: an inserted ticker item gets 1 plus the largest tickerId of the
\* ticker items of the top level, callable items counting for nothing, and
\* 1 when the top level holds no ticker item
C20_NewTickerId ==
    [][ lastCmd'.op = "insertTicker"
        => LET ids == {items[rootRows[r]].tickerId : r \in TickerRows(items, rootRows)}
           IN  items'[lastCmd'.new].tickerId = IF ids = {} THEN 1 ELSE 1 + Max(ids) ]_vars

\* the (parent, child) pairs an insert command may build; "Root" is the
\* invisible root item
InsertPairs ==
    {<<"Root", "CallableItem">>, <<"Root", "TickerItem">>,
     <<"TickerItem", "FieldItem">>, <<"FieldItem", "IndexItem">>,
     <<"IndexItem", "IndexItem">>}

\* the variant of the item an insert command of the given handler makes
InsertedKind ==
    [insertCallable |-> "CallableItem", insertTicker |-> "TickerItem",
     insertField |-> "FieldItem", insertIndex |-> "IndexItem"]

\* the edited item is an item of the document
Editing == editItem # None /\ editItem \in InTree

\* C21: an insert command adds an item exactly for the pairs Root->Callable,
\* Root->Ticker, Ticker->Field, Field->Index and Index->Index: the insert
\* field and insert index commands are enabled on the edited item exactly
\* when the pair is one of these, and every insert step adds one item of
\* the variant of the command under a parent of such a pair
C21_InsertPairs ==
    /\ [](Editing =>
            /\ enabled.insertfield = (<<items[editItem].kind, "FieldItem">> \in InsertPairs)
            /\ enabled.insertindex = (<<items[editItem].kind, "IndexItem">> \in InsertPairs))
    /\ [](~Editing => ~enabled.insertfield /\ ~enabled.insertindex)
    /\ [][ lastCmd'.op \in DOMAIN InsertedKind
           => LET new    == lastCmd'.new
                  parent == items'[new].parent
              IN  /\ new = Len(items) + 1
                  /\ Len(items') = Len(items) + 1
                  /\ items'[new].kind = InsertedKind[lastCmd'.op]
                  /\ <<KindOf(items', parent) , items'[new].kind>> \in
                        {<<IF p[1] = "Root" THEN "None" ELSE p[1], p[2]>> : p \in InsertPairs}
                  /\ parent = (IF lastCmd'.op \in {"insertField", "insertIndex"}
                               THEN editItem ELSE None) ]_vars

\* an index item was inserted under an index item, below a field of a
\* ticker
C21_Witness ==
    /\ lastCmd.op = "insertIndex"
    /\ items[items[lastCmd.new].parent].kind = "IndexItem"
    /\ \E n \in InTree : items[n].kind = "FieldItem" /\ items[items[n].parent].kind = "TickerItem"

\* C22: an insert step puts the new item last among the rows of its parent
\* (the top level for a callable or a ticker) and leaves the rows that were
\* there as they were, in their order
C22_InsertAppends ==
    [][ lastCmd'.op \in DOMAIN InsertedKind
        => LET new    == lastCmd'.new
               parent == items'[new].parent
           IN  /\ IF parent = None
                  THEN rootRows' = Append(rootRows, new)
                  ELSE /\ items'[parent].rows = Append(items[parent].rows, new)
                       /\ rootRows' = rootRows
               /\ \A n \in 1..Len(items) :
                     n # parent => items'[n].rows = items[n].rows ]_vars

\* a field was inserted under a ticker that had a field already
C22_Witness ==
    /\ lastCmd.op = "insertField"
    /\ LET rows == items[items[lastCmd.new].parent].rows
       IN  Len(rows) >= 2 /\ rows[Len(rows)] = lastCmd.new

\* the sequence s without its entries equal to x
Without(s, x) == SelectSeq(s, LAMBDA y : y # x)

\* C23: a paste that ran leaves the other rows of the target in their
\* order, none lost, none twice, and puts the pasted item last, also when
\* the target is the parent of the cut item
C23_PasteKeepsOrder ==
    [][ (lastCmd'.op = "paste" /\ lastCmd'.ok)
        => LET new == lastCmd'.new
           IN  /\ items'[editItem].rows = Append(Without(items[editItem].rows, new), new)
               /\ Cardinality(Occurrences(items', new)) = 1 ]_vars

\* a move command ran on the edited item
Moved == lastCmd'.op \in {"moveUp", "moveDown"}

\* C24: a move of the edited item by offset, with a sibling at that
\* offset, exchanges the rows of the two; the other rows of the parent
\* stay, every item keeps its own rows, and the edited item is still the
\* moved one
C24_MoveSwaps ==
    [][ Moved
        => LET offset == IF lastCmd'.op = "moveUp" THEN -1 ELSE 1
               rows   == RowsOfParent(items, rootRows, editItem)
               rowsP  == RowsOfParent(items', rootRows', editItem)
               row    == RowOf(items, rootRows, editItem)
           IN  /\ row + offset \in 1..Len(rows)
               /\ Len(rowsP) = Len(rows)
               /\ rowsP[row + offset] = editItem
               /\ rowsP[row] = rows[row + offset]
               /\ \A r \in 1..Len(rows) \ {row, row + offset} : rowsP[r] = rows[r]
               /\ \A n \in 1..Len(items) :
                     /\ n # items[editItem].parent => items'[n].rows = items[n].rows
                     /\ items'[n].parent = items[n].parent
               /\ items[editItem].parent # None => rootRows' = rootRows
               /\ editItem' = editItem ]_vars

\* a field with an index below it was moved down past another field and
\* still has its index
C24_Witness ==
    /\ lastCmd.op = "moveDown"
    /\ items[editItem].kind = "FieldItem"
    /\ Len(items[editItem].rows) = 1
    /\ RowOf(items, rootRows, editItem) = 2

\* C25: move up is enabled only on an edited item that has a row above it
\* and move down only on one that has a row below it, so that a move on a
\* first or last row is never run
C25_MoveOnlyInside ==
    /\ enabled.up =>
          /\ Editing
          /\ RowOf(items, rootRows, editItem) > 1
    /\ enabled.down =>
          /\ Editing
          /\ RowOf(items, rootRows, editItem) < Len(RowsOfParent(items, rootRows, editItem))

\* the edited item was moved up to the first of three rows: move up is
\* now disabled, move down enabled
C25_Witness ==
    /\ lastCmd.op = "moveUp"
    /\ RowOf(items, rootRows, editItem) = 1
    /\ Len(RowsOfParent(items, rootRows, editItem)) = 3
    /\ ~enabled.up /\ enabled.down

\* the field ids of the other rows of the parent of field item n
SiblingIds(its, n) ==
    LET rows == its[its[n].parent].rows
    IN  {its[rows[r]].id : r \in {q \in 1..Len(rows) : rows[q] # n}}

\* C26: choosing in the field combo a field id that a sibling of the
\* edited field has changes nothing: the id and the name of the field, its
\* siblings and every parameter of the document stay as they were
C26_DuplicateFieldRejected ==
    [][ \A fid \in DOMAIN fieldTypes :
          ( /\ on_fieldCombo_currentIndexChanged(fid)
            /\ items[editItem].parent # None
            /\ fid \in SiblingIds(items, editItem) )
          => /\ items' = items
             /\ dicts' = dicts
             /\ rootRows' = rootRows ]_vars

\* the field combo has refused an id: the edited field has a sibling field
\* with another id, and index items below it
C26_Witness ==
    /\ lastCmd.op = "fieldCombo" /\ ~lastCmd.ok /\ lastCmd.emits = 1
    /\ editItem # None /\ items[editItem].parent # None
    /\ (SiblingIds(items, editItem) \cap DOMAIN fieldTypes) \ {items[editItem].id} # {}
    /\ Len(items[editItem].rows) > 0

\* C27: a command that changes the schema of the document emits the
\* modified signal exactly once
C27_ModifiedOnce ==
    [][ ( /\ lastCmd'.op # "open"
          /\ schema(items', dicts', rootRows') # schema(items, dicts, rootRows) )
        => lastCmd'.emits = 1 ]_vars

\* the variant an entry of a schema is read as
EntryKind(data) ==
    IF "execType" \in DOMAIN data THEN "CallableItem"
    ELSE IF "tickerId" \in DOMAIN data THEN "TickerItem"
    ELSE "None"

\* C28: when a schema is opened, an entry with the key execType becomes a
\* callable item, also when it has the key tickerId, an entry with tickerId
\* and no execType becomes a ticker item, and the top level holds them in
\* the order of the entries
C28_Dispatch ==
    [][ \A sch \in Schemas :
          (on_actionOpenSchema_triggered(sch, MaxLoadItems) /\ lastCmd'.ok)
          => /\ Len(rootRows') = Len(sch)
             /\ \A r \in 1..Len(sch) :
                   LET item == items'[rootRows'[r]]
                   IN  /\ item.kind = EntryKind(sch[r])
                       /\ item.kind = "CallableItem" => item.execType = sch[r].execType
                       /\ item.kind = "TickerItem" =>
                             /\ item.tickerId = sch[r].tickerId
                             /\ item.text = sch[r].symbol ]_vars

\* the schema with an entry holding both keys was opened: that entry, the
\* second, is a callable item between two ticker items
C28_Witness ==
    /\ lastCmd.op = "open" /\ lastCmd.ok
    /\ Len(rootRows) = 3
    /\ items[rootRows[1]].kind = "TickerItem"
    /\ items[rootRows[2]].kind = "CallableItem"
    /\ items[rootRows[2]].execType = "message"
    /\ items[rootRows[3]].kind = "TickerItem"

\* the keys fromSchema cannot do without, by variant
MandatoryKeys ==
    [CallableItem |-> {}, TickerItem |-> {"tickerId", "symbol"},
     FieldItem |-> {"name", "id"}, IndexItem |-> {"typeName"}]

\* the key that holds the schemas of the rows, and the variant of the rows
RowsKey ==
    [CallableItem |-> "none", TickerItem |-> "fields",
     FieldItem |-> "indexes", IndexItem |-> "indexes"]

RowsKind ==
    [CallableItem |-> "None", TickerItem |-> "FieldItem",
     FieldItem |-> "IndexItem", IndexItem |-> "IndexItem"]

\* the value of key in data, or the given value when data has no such key
ValueOr(data, key, value) == IF key \in DOMAIN data THEN data[key] ELSE value

\* data and every schema below it has its mandatory keys
RECURSIVE Complete(_, _)
Complete(data, kind) ==
    /\ MandatoryKeys[kind] \subseteq DOMAIN data
    /\ LET list == ValueOr(data, RowsKey[kind], <<>>)
       IN  \A r \in 1..Len(list) : Complete(list[r], RowsKind[kind])

\* item n is what data describes: the values of the keys data has, the
\* defaults of the optional keys it lacks, and a row for each schema of
\* its rows, in order
RECURSIVE Describes(_, _, _, _, _)
Describes(its, ds, n, data, kind) ==
    LET item == its[n]
        list == ValueOr(data, RowsKey[kind], <<>>)
    IN  /\ item.kind = kind
        /\ CASE kind = "CallableItem" ->
                   /\ item.text = ValueOr(data, "name", "Unknown")
                   /\ item.execType = ValueOr(data, "execType", "")
                   /\ item.srcType = ValueOr(data, "srcType", "")
                   /\ item.messageTypes = ValueOr(data, "messageTypes", <<>>)
             [] kind = "TickerItem" ->
                   /\ item.tickerId = data.tickerId
                   /\ item.text = data.symbol
                   /\ item.exchange = ValueOr(data, "exchange", "")
                   /\ item.strike = ValueOr(data, "strike", 0)
             [] kind = "FieldItem" ->
                   /\ item.text = data.name
                   /\ item.id = data.id
             [] kind = "IndexItem" ->
                   /\ item.typeName = data.typeName
                   /\ item.text = ValueOr(data, "name", data.typeName)
                   /\ ds[item.parameters] = ValueOr(data, "parameters", <<>>)
        /\ Len(item.rows) = Len(list)
        /\ \A r \in 1..Len(list) :
              Describes(its, ds, item.rows[r], list[r], RowsKind[kind])

\* C29: TickerItem.fromSchema fails on an entry exactly when the entry, or
\* a schema below it, lacks a mandatory key, and reading a schema whose
\* entries are callables and tickers fails exactly then; otherwise every
\* item has the values of its schema and the default of every optional
\* key the schema lacks
C29_MandatoryKeys ==
    [][ \A sch \in Schemas :
          on_actionOpenSchema_triggered(sch, MaxLoadItems)
          => /\ \A r \in 1..Len(sch) :
                   TickerItem_fromSchemaRows([items |-> <<>>, dicts |-> <<>>], sch[r]).ok
                      = Complete(sch[r], "TickerItem")
             /\ (\A r \in 1..Len(sch) : EntryKind(sch[r]) # "None")
                => /\ lastCmd'.ok =
                         (\A r \in 1..Len(sch) : Complete(sch[r], EntryKind(sch[r])))
                   /\ lastCmd'.ok =>
                         \A r \in 1..Len(sch) :
                            Describes(items', dicts', rootRows'[r], sch[r],
                                      EntryKind(sch[r])) ]_vars

\* the schema with the mandatory keys only was opened: the first ticker
\* has no rows, the default exchange and strike, the callable the default
\* name and no message types, the field of the last ticker no rows
C29_Witness ==
    /\ lastCmd.op = "open" /\ lastCmd.ok
    /\ Len(rootRows) = 3
    /\ LET ticker == items[rootRows[1]]
           callable == items[rootRows[2]]
           last == items[rootRows[3]]
       IN  /\ ticker.text = "MSFT" /\ ticker.rows = <<>>
           /\ ticker.exchange = "" /\ ticker.strike = 0
           /\ callable.text = "Unknown" /\ callable.messageTypes = <<>>
           /\ Len(last.rows) = 1 /\ items[last.rows[1]].rows = <<>>

\* C30: cut and copy are enabled only while the edited item is a field or
\* an index item, so that a cut or copy on a callable or a ticker does
\* nothing, and the clip item is None or a field or an index item
C30_ClipIsFieldOrIndex ==
    /\ clipItem # None => items[clipItem].kind \in {"FieldItem", "IndexItem"}
    /\ (enabled.cut \/ enabled.copy) =>
          /\ editItem # None
          /\ items[editItem].kind \in {"FieldItem", "IndexItem"}

\* a ticker is edited, with cut and copy disabled, while a field cut or
\* copied before is the clip item
C30_Witness ==
    /\ lastCmd.op = "clicked"
    /\ editItem # None /\ items[editItem].kind = "TickerItem"
    /\ ~enabled.cut /\ ~enabled.copy
    /\ clipItem # None /\ items[clipItem].kind = "FieldItem"

\* the items a paste of a copied item creates: the clone and its descendants
Created == (Len(items) + 1)..Len(items')

\* the step is a paste that clones the clip item
ClonePaste ==
    /\ lastCmd'.op = "paste" /\ lastCmd'.ok
    /\ Len(items') > Len(items)

\* C31: every item clone() creates, the clone and all its descendants, has
\* neither cutSource nor copySource set, whatever the source items carry
C31_ClonesUnmarked ==
    [][ClonePaste =>
          \A n \in Created : ~items'[n].cutSource /\ ~items'[n].copySource]_vars

\* a paste has cloned a copied field one of whose descendants is marked as
\* well; the clone and the descendant's clone are unmarked
C31_Witness ==
    /\ lastCmd.op = "paste" /\ lastCmd.ok
    /\ clipItem # None /\ lastCmd.new > clipItem
    /\ items[clipItem].kind = "FieldItem" /\ items[clipItem].copySource
    /\ \E d \in SubtreeOf(items, clipItem) \ {clipItem} : items[d].copySource
    /\ Len(items[lastCmd.new].rows) > 0
    /\ \A n \in SubtreeOf(items, lastCmd.new) :
           ~items[n].cutSource /\ ~items[n].copySource

\* the values the schema gives execType and srcType
ExecTypes == {"message", "thread", "singleshot"}

SrcTypes == {"script", "syspath"}

\* C32: in every reachable state every callable item of the document has an
\* execType among message, thread, singleshot and a srcType among script,
\* syspath
C32_CallableEnums ==
    \A n \in InTree :
        items[n].kind = "CallableItem" =>
            items[n].execType \in ExecTypes /\ items[n].srcType \in SrcTypes

\* the ancestor of item n that is k parent links above it, None beyond a top
RECURSIVE ParentAt(_, _, _)
ParentAt(its, n, k) ==
    IF k = 0 \/ n = None THEN n ELSE ParentAt(its, its[n].parent, k - 1)

\* item n is reached from itself by following parent links
OwnAncestor(its, n) == \E k \in 1..Len(its) : ParentAt(its, n, k) = n

\* the number of places, top level included, at which item n is a row
Places(its, rootR, n) ==
    Cardinality(Occurrences(its, n))
        + Cardinality({r \in 1..Len(rootR) : rootR[r] = n})

\* the step is a paste, run to its end, of a clip item that is a cut source
CutPasteStep ==
    /\ lastCmd'.op = "paste" /\ lastCmd'.ok
    /\ clipItem # None /\ items[clipItem].cutSource

\* C33: after a paste of a cut item every item that was in the document
\* before the paste is in the document, at exactly one place, and no item is
\* its own ancestor
C33_CutPasteConserves ==
    [][CutPasteStep =>
          /\ \A n \in TreeOf(items, rootRows) :
                /\ n \in TreeOf(items', rootRows')
                /\ Places(items', rootRows', n) = 1
          /\ \A n \in 1..Len(items') : ~OwnAncestor(items', n)]_vars

\* C34: after a document reset (New, Close, an Open that loads or one that
\* fails) the clip reference and the edited-item reference are null
C34_ResetClearsReferences ==
    lastCmd.op \in {"new", "open"} => clipItem = None /\ editItem = None

\* no paste is run on an item of a document that a reset has discarded
C34_NoPasteFromOldDocument ==
    [][lastCmd'.op = "paste" => ~items[clipItem].deleted]_vars

\* the step changes the name of the edited index item, in the name line
\* edit or by the automatic name of a new type
RenameStep ==
    /\ lastCmd'.op \in {"indexName", "indexCombo"}
    /\ items'[editItem].text # items[editItem].text

\* C35: a parameter whose value is the empty string, on an index item below
\* the same root item as a renamed item and other than it, is the empty
\* string after the rename
C35_UnsetStaysUnset ==
    [][RenameStep =>
          \A p \in References(items, dicts, OtherIndexItems(items, editItem), "") :
              dicts'[items[p[1]].parameters][p[2]] = StrVal("")]_vars

\* the same for the renames of an item whose name before was not empty
C35_UnsetStaysUnsetNamed ==
    [][(RenameStep /\ items[editItem].text # "") =>
          \A p \in References(items, dicts, OtherIndexItems(items, editItem), "") :
              dicts'[items[p[1]].parameters][p[2]] = StrVal("")]_vars

\* C36: after a handler that emitted modified the window-modified flag is
\* set exactly when the schema of the document differs from the schema
\* last loaded
C36_ModifiedFlag ==
    lastCmd.emits > 0 =>
        (windowModified <=>
            NotEqual(savedSchema, ListValue(schema(items, dicts, rootRows))))

\* the flag is never clear after a handler that emitted modified
C36_FlagAlwaysSet == lastCmd.emits > 0 => windowModified

====
